---- MODULE Spec2Model ----
(***************************************************************************)
(* DataLens: metadata extraction, the seven dimension scorers, the base    *)
(* score aggregator and the role profile engine, as state machines.        *)
(*                                                                         *)
(* Numbers.  Python floats are modelled by exact rationals <<n, d>> with   *)
(* d > 0 in lowest terms; round(x, 2) is rounding to hundredths with ties  *)
(* to even.  Instants and durations are whole hours.  The weights that     *)
(* _make_weights computes are also modelled bit by bit as binary64, where  *)
(* the question is whether a float sum is exactly 1.0.                     *)
(* Dicts are functions whose DOMAIN is the key set; d.get(k, v) is Get.    *)
(* Optional values are <<>> (None) or <<x>>.                               *)
(* Text (column names, role names) is a tuple of one-character strings so  *)
(* that lower() and the substring tests are computed, not assumed.         *)
(***************************************************************************)
EXTENDS Integers, Sequences, FiniteSets, TLC

VARIABLES
    df,          \* pipeline: the uploaded table
    now,         \* pipeline: the wall clock read by datetime.datetime.now()
    metadata,    \* pipeline: result of extract_metadata (Optional)
    dim_scores,  \* pipeline: result of calculate_all_dimensions (Optional)
    base_dqs,    \* pipeline: result of calculate_base_dqs (Optional)
    runs,        \* pipeline: outputs of the completed process_data calls
    frame,       \* a single call of a core function: arguments, locals, pc
    ret,         \* the outcome of that call
    PROFILES,    \* roles.py: the module-level catalog
    held,        \* the dict a caller got from get_role_profile (Optional)
    explanation  \* the outcome of explain_role_impact (Optional)

vars == <<df, now, metadata, dim_scores, base_dqs, runs, frame, ret, PROFILES,
          held, explanation>>

----------------------------------------------------------------------------
(* Exact rational arithmetic                                               *)

Abs(x) == IF x < 0 THEN -x ELSE x

RECURSIVE GCD(_, _)
GCD(a, b) == IF b = 0 THEN a ELSE GCD(b, a % b)

Norm(q) ==
    LET g == GCD(Abs(q[1]), q[2])
    IN  IF q[1] = 0 THEN <<0, 1>> ELSE <<q[1] \div g, q[2] \div g>>

Rat(n) == <<n, 1>>
Frac(n, d) == Norm(<<n, d>>)

RatAdd(a, b) ==
    LET l == (a[2] \div GCD(a[2], b[2])) * b[2]
    IN  Norm(<<a[1] * (l \div a[2]) + b[1] * (l \div b[2]), l>>)
RatNeg(a) == <<-a[1], a[2]>>
RatSub(a, b) == RatAdd(a, RatNeg(b))
RatMul(a, b) ==
    LET x == Norm(<<a[1], b[2]>>)
        y == Norm(<<b[1], a[2]>>)
    IN  Norm(<<x[1] * y[1], x[2] * y[2]>>)
RatInv(a) == IF a[1] < 0 THEN <<-a[2], -a[1]>> ELSE <<a[2], a[1]>>
RatDiv(a, b) == RatMul(a, RatInv(b))
RatAbs(a) == <<Abs(a[1]), a[2]>>
RatLe(a, b) == a[1] * b[2] <= b[1] * a[2]
RatLt(a, b) == a[1] * b[2] < b[1] * a[2]
RatMax(a, b) == IF RatLe(a, b) THEN b ELSE a
RatMin(a, b) == IF RatLe(a, b) THEN a ELSE b

RECURSIVE RatSumSeq(_)
RatSumSeq(s) == IF s = <<>> THEN Rat(0) ELSE RatAdd(Head(s), RatSumSeq(Tail(s)))

\* round(x, 2): the nearest multiple of 1/100, ties to the even one.
Round2(q) ==
    LET x  == 100 * q[1]
        fl == x \div q[2]
        r  == x - fl * q[2]
        h  == IF 2 * r < q[2] THEN fl
              ELSE IF 2 * r > q[2] THEN fl + 1
              ELSE IF fl % 2 = 0 THEN fl ELSE fl + 1
    IN  Frac(h, 100)

InRange0100(q) == RatLe(Rat(0), q) /\ RatLe(q, Rat(100))

----------------------------------------------------------------------------
(* Python containers                                                       *)

None == <<>>
Some(x) == <<x>>

Get(d, k, default) == IF k \in DOMAIN d THEN d[k] ELSE default

RECURSIVE SetToSeq(_)
SetToSeq(S) ==
    IF S = {} THEN <<>>
    ELSE LET x == CHOOSE y \in S : TRUE IN <<x>> \o SetToSeq(S \ {x})

\* sum(d.values())
SumValues(d) == RatSumSeq([i \in 1..Cardinality(DOMAIN d) |-> d[SetToSeq(DOMAIN d)[i]]])

Range(s) == {s[i] : i \in DOMAIN s}

----------------------------------------------------------------------------
(* scoring.py                                                              *)

required_dimensions ==
    <<"accuracy", "completeness", "consistency",
      "timeliness", "uniqueness", "validity", "integrity">>

Dims == Range(required_dimensions)

\* line 25: scores = {dim: dimension_scores.get(dim, 0.0) ...}
ScoresOrZero(dimension_scores) ==
    [dim \in Dims |-> Get(dimension_scores, dim, Rat(0))]

\* a faulty variant: the mass spread over six dimensions
DefaultWeights_Sixth == [dim \in Dims |-> Frac(1, 6)]

\* lines 29-30: the default weights, 1/7 each
DefaultWeights == [dim \in Dims |-> Frac(1, 7)]

\* line 34: the float tolerance
WeightTolerance == Frac(1, 1000)

\* a faulty variant: the absolute value forgotten
WeightsRejected_NoAbs(weights) ==
    RatLt(WeightTolerance, RatSub(SumValues(weights), Rat(1)))

\* line 34: abs(total_weight - 1.0) > 0.001
WeightsRejected(weights) ==
    RatLt(WeightTolerance, RatAbs(RatSub(SumValues(weights), Rat(1))))

\* a faulty variant: an omitted dimension falls back to the equal weight
WeightedSum_SeventhFallback(scores, weights) ==
    RatSumSeq([i \in 1..Len(required_dimensions) |->
        RatMul(scores[required_dimensions[i]],
               Get(weights, required_dimensions[i], Frac(1, 7)))])

\* line 38: sum(scores[dim] * weights.get(dim, 0.0) for dim in required_dimensions)
WeightedSum(scores, weights) ==
    RatSumSeq([i \in 1..Len(required_dimensions) |->
        RatMul(scores[required_dimensions[i]],
               Get(weights, required_dimensions[i], Rat(0)))])

NoCall == [fn |-> "none", pc |-> "none"]
NoRet == [kind |-> "none"]
Return(v) == [kind |-> "return", value |-> v]
Raise(e) == [kind |-> "raise", exc |-> e]

\* The pipeline variables at rest, for the specifications of single calls
PipelineIdle ==
    /\ df = None
    /\ now = 0
    /\ metadata = None
    /\ dim_scores = None
    /\ base_dqs = None
    /\ runs = <<>>

\* calculate_base_dqs, lines 19-35: the score defaults and the weight check
calculate_base_dqs_validate ==
    /\ frame.fn = "calculate_base_dqs"
    /\ frame.pc = "validate"
    /\ LET scores == ScoresOrZero(frame.args.dimension_scores)
       IN  IF frame.weights = None
           THEN /\ frame' = [frame EXCEPT !.pc = "aggregate", !.scores = Some(scores),
                                          !.weights = Some(DefaultWeights)]
                /\ ret' = ret
           ELSE IF WeightsRejected(frame.weights[1])
           THEN /\ frame' = [frame EXCEPT !.pc = "done", !.scores = Some(scores)]
                /\ ret' = Raise("ValueError")
           ELSE /\ frame' = [frame EXCEPT !.pc = "aggregate", !.scores = Some(scores)]
                /\ ret' = ret
    /\ UNCHANGED <<df, now, metadata, dim_scores, base_dqs, runs, PROFILES, held, explanation>>

\* calculate_base_dqs, lines 37-40: the weighted sum and the rounding
calculate_base_dqs_aggregate ==
    /\ frame.fn = "calculate_base_dqs"
    /\ frame.pc = "aggregate"
    /\ LET dqs == WeightedSum(frame.scores[1], frame.weights[1])
       IN  /\ frame' = [frame EXCEPT !.pc = "done", !.dqs_base = Some(dqs)]
           /\ ret' = Return(Round2(dqs))
    /\ UNCHANGED <<df, now, metadata, dim_scores, base_dqs, runs, PROFILES, held, explanation>>

\* calculate_base_dqs(dimension_scores, weights) in one piece, as its callers see it
BaseDqsResult(dimension_scores, weights) ==
    IF weights # None /\ WeightsRejected(weights[1]) THEN Raise("ValueError")
    ELSE Return(Round2(WeightedSum(ScoresOrZero(dimension_scores),
                                   IF weights = None THEN DefaultWeights ELSE weights[1])))

----------------------------------------------------------------------------
(* Text                                                                    *)

UpperLetters ==
    <<"A", "B", "C", "D", "E", "F", "G", "H", "I", "J", "K", "L", "M",
      "N", "O", "P", "Q", "R", "S", "T", "U", "V", "W", "X", "Y", "Z">>
LowerLetters ==
    <<"a", "b", "c", "d", "e", "f", "g", "h", "i", "j", "k", "l", "m",
      "n", "o", "p", "q", "r", "s", "t", "u", "v", "w", "x", "y", "z">>

IndexIn(c, letters) == CHOOSE i \in 1..Len(letters) : letters[i] = c

\* str.lower() and str.upper()
Lower(s) ==
    [i \in 1..Len(s) |->
        IF s[i] \in Range(UpperLetters) THEN LowerLetters[IndexIn(s[i], UpperLetters)]
        ELSE s[i]]
Upper(s) ==
    [i \in 1..Len(s) |->
        IF s[i] \in Range(LowerLetters) THEN UpperLetters[IndexIn(s[i], LowerLetters)]
        ELSE s[i]]

\* sub in s
Contains(sub, s) ==
    \E i \in 0..(Len(s) - Len(sub)) : SubSeq(s, i + 1, i + Len(sub)) = sub

----------------------------------------------------------------------------
(* roles.py                                                                *)

DataEngineer == <<"D", "a", "t", "a", " ", "E", "n", "g", "i", "n", "e", "e", "r">>
DataScientist == <<"D", "a", "t", "a", " ", "S", "c", "i", "e", "n", "t", "i", "s", "t">>
FraudAnalyst == <<"F", "r", "a", "u", "d", " ", "A", "n", "a", "l", "y", "s", "t">>
ComplianceOfficer ==
    <<"C", "o", "m", "p", "l", "i", "a", "n", "c", "e", " ", "O", "f", "f", "i", "c", "e", "r">>
FinanceSettlement ==
    <<"F", "i", "n", "a", "n", "c", "e", " ", "/", " ",
      "S", "e", "t", "t", "l", "e", "m", "e", "n", "t">>
ExecutiveLeadership ==
    <<"E", "x", "e", "c", "u", "t", "i", "v", "e", " ", "/", " ",
      "L", "e", "a", "d", "e", "r", "s", "h", "i", "p">>

\* the keys of PROFILES in their insertion order
ProfileOrder ==
    <<DataEngineer, DataScientist, FraudAnalyst,
      ComplianceOfficer, FinanceSettlement, ExecutiveLeadership>>

\* _make_weights: the declared weights, the rest of the mass spread evenly
make_weights(focus_map) ==
    LET current_sum == SumValues(focus_map)
        remaining   == RatSub(Rat(1), current_sum)
        start_count == Len(required_dimensions) - Cardinality(DOMAIN focus_map)
    IN  [d \in Dims |->
            Get(focus_map, d,
                IF start_count > 0 THEN RatDiv(remaining, Rat(start_count)) ELSE Rat(0))]

Pct(n) == Frac(n, 100)

\* PROFILES as the module defines it at import
PROFILES_AtImport ==
    [k \in Range(ProfileOrder) |->
      CASE k = DataEngineer ->
        [description |-> "Focuses on pipeline reliability, schema adherence, and completeness.",
         risk_level |-> "Technical",
         weights |-> make_weights([d \in {"completeness", "integrity", "accuracy"} |->
                        IF d = "accuracy" THEN Pct(20) ELSE Pct(25)]),
         critical_dimensions |-> <<"completeness", "integrity", "accuracy">>,
         risk_threshold |-> 80,
         required_signals |-> <<>>]
        [] k = DataScientist ->
        [description |-> "Needs clean distributions, consistent history, and valid values for modeling.",
         risk_level |-> "Model Performance",
         weights |-> make_weights([d \in {"consistency", "validity", "completeness"} |->
                        IF d = "consistency" THEN Pct(25) ELSE Pct(20)]),
         critical_dimensions |-> <<"consistency", "validity", "completeness">>,
         risk_threshold |-> 75,
         required_signals |-> <<>>]
        [] k = FraudAnalyst ->
        [description |-> "Detects anomalies; relies on unique identities and real-time signals.",
         risk_level |-> "High Operational",
         weights |-> make_weights([d \in {"uniqueness", "timeliness", "validity"} |->
                        IF d = "validity" THEN Pct(10) ELSE Pct(30)]),
         critical_dimensions |-> <<"uniqueness", "timeliness">>,
         risk_threshold |-> 75,
         required_signals |-> <<"has_transaction_id">>]
        [] k = ComplianceOfficer ->
        [description |-> "Strict adherence to rules (KYC), accuracy of records, and data integrity.",
         risk_level |-> "Regulatory",
         weights |-> make_weights([d \in {"accuracy", "integrity", "completeness"} |->
                        IF d = "completeness" THEN Pct(20) ELSE Pct(25)]),
         critical_dimensions |-> <<"accuracy", "integrity", "validity">>,
         risk_threshold |-> 85,
         required_signals |-> <<"has_kyc">>]
        [] k = FinanceSettlement ->
        [description |-> "Zero tolerance for accuracy errors in amounts and validity of status.",
         risk_level |-> "Financial",
         weights |-> make_weights([d \in {"accuracy", "validity", "timeliness"} |->
                        IF d = "timeliness" THEN Pct(15) ELSE Pct(30)]),
         critical_dimensions |-> <<"accuracy", "validity">>,
         risk_threshold |-> 90,
         required_signals |-> <<"has_amount">>]
        [] OTHER ->
        [description |-> "High level overview, balanced concern for overall trust.",
         risk_level |-> "Strategic",
         weights |-> make_weights(<<>>),
         critical_dimensions |-> <<>>,
         risk_threshold |-> 60,
         required_signals |-> <<>>]]

\* a faulty variant: the comparison made case-sensitive
RECURSIVE NextMatch_CaseSensitive(_, _, _)
NextMatch_CaseSensitive(order, role_name, default) ==
    IF order = <<>> THEN default
    ELSE IF Head(order) = role_name THEN Head(order)
    ELSE NextMatch_CaseSensitive(Tail(order), role_name, default)

\* next((k for k in PROFILES if k.lower() == role_name.lower()), default), line 74
RECURSIVE NextMatch(_, _, _)
NextMatch(order, role_name, default) ==
    IF order = <<>> THEN default
    ELSE IF Lower(Head(order)) = Lower(role_name) THEN Head(order)
    ELSE NextMatch(Tail(order), role_name, default)

role_key(role_name) == NextMatch(ProfileOrder, role_name, ExecutiveLeadership)

\* dict.copy() followed by profile['role_name'] = role_key, lines 75-76
WithRoleName(profile, key) ==
    [f \in DOMAIN profile \cup {"role_name"} |->
        IF f = "role_name" THEN key ELSE profile[f]]

\* get_role_profile, lines 70-77
GetRoleProfile(catalog, role_name) ==
    WithRoleName(catalog[role_key(role_name)], role_key(role_name))

\* line 75: PROFILES[role_key].copy() copies the entry's items, not the
\* objects they name: the new dict holds the catalog's own weights dict and
\* its critical_dimensions and required_signals lists.
NestedFields == {"weights", "critical_dimensions", "required_signals"}

\* The dict handed to a caller is [key, top, shares]: the catalog entry it was
\* copied from, the items that are its own, and the items that are still the
\* catalog's objects.
ReturnedDict(catalog, role_name) ==
    LET profile == GetRoleProfile(catalog, role_name)
    IN  [key    |-> role_key(role_name),
         top    |-> [f \in DOMAIN profile \ NestedFields |-> profile[f]],
         shares |-> NestedFields]

\* the dict as its holder reads it
ViewOf(catalog, h) ==
    [f \in DOMAIN h.top \cup h.shares |->
        IF f \in h.shares THEN catalog[h.key][f] ELSE h.top[f]]

\* get_all_role_names, lines 79-81
get_all_role_names == ProfileOrder

\* is_role_applicable, lines 83-89: the loop over required_signals
RECURSIVE AllSignalsTrue(_, _)
AllSignalsTrue(required, metadata_signals) ==
    IF required = <<>> THEN TRUE
    ELSE IF ~Get(metadata_signals, Head(required), FALSE) THEN FALSE
    ELSE AllSignalsTrue(Tail(required), metadata_signals)

is_role_applicable(role_profile, metadata_signals) ==
    AllSignalsTrue(Get(role_profile, "required_signals", <<>>), metadata_signals)

\* The metadata argument of calculate_role_score and explain_role_impact is
\* untyped.  obj: "none" (None), "record" (an object with a signals attribute,
\* such as DatasetMetadata) or "dict" (a plain mapping of signals).
MetaNone == [obj |-> "none"]
MetaRecord(signals) == [obj |-> "record", signals |-> signals]
MetaDict(items) == [obj |-> "dict", items |-> items]

\* bool(metadata): None and the empty dict are falsy, a dataclass instance is truthy
Truthy(m) ==
    CASE m.obj = "none" -> FALSE
      [] m.obj = "dict" -> DOMAIN m.items # {}
      [] OTHER -> TRUE

\* hasattr(metadata, 'signals')
HasSignalsAttr(m) == m.obj = "record"

\* lines 103-105: the applicability check; TRUE when the call returns (None, False)
NotApplicableExit(role_profile, m) ==
    IF Truthy(m) /\ HasSignalsAttr(m)
    THEN ~is_role_applicable(role_profile, m.signals)
    ELSE FALSE

\* lines 108-109: alpha enforcement
AlphaFloor == Frac(6, 10)

\* a faulty variant: the requested alpha taken as is
EnforceAlpha_NoFloor(alpha) == alpha

EnforceAlpha(alpha) == IF RatLt(alpha, AlphaFloor) THEN AlphaFloor ELSE alpha

\* lines 114-117: the loop over dimension_scores.items()
RoleComponent(weights, dimension_scores) ==
    LET keys == SetToSeq(DOMAIN dimension_scores)
    IN  RatSumSeq([i \in 1..Len(keys) |->
            RatMul(Get(weights, keys[i], Rat(0)), dimension_scores[keys[i]])])

\* a faulty variant: a score equal to the threshold flagged too
RECURSIVE RiskLoop_LessEqual(_, _, _)
RiskLoop_LessEqual(check_dims, dimension_scores, threshold) ==
    IF check_dims = <<>> THEN FALSE
    ELSE IF RatLe(Get(dimension_scores, Head(check_dims), Rat(0)), Rat(threshold)) THEN TRUE
    ELSE RiskLoop_LessEqual(Tail(check_dims), dimension_scores, threshold)

\* lines 125-129: the loop over check_dims, leaving at the first failure
RECURSIVE RiskLoop(_, _, _)
RiskLoop(check_dims, dimension_scores, threshold) ==
    IF check_dims = <<>> THEN FALSE
    ELSE IF RatLt(Get(dimension_scores, Head(check_dims), Rat(0)), Rat(threshold)) THEN TRUE
    ELSE RiskLoop(Tail(check_dims), dimension_scores, threshold)

\* lines 122-123
CheckDims(role_profile) == Get(role_profile, "critical_dimensions", <<>>)
Threshold(role_profile) == Get(role_profile, "risk_threshold", 75)

\* calculate_role_score, lines 91-131: <<rus_score, risk_detected>>
RoleScoreResult(base, dimension_scores, role_profile, m, alpha) ==
    IF NotApplicableExit(role_profile, m) THEN <<None, FALSE>>
    ELSE LET a == EnforceAlpha(alpha)
             role_component == RoleComponent(role_profile.weights, dimension_scores)
             rus_score == RatAdd(RatMul(a, base),
                                 RatMul(RatSub(Rat(1), a), role_component))
         IN  <<Some(Round2(rus_score)),
               RiskLoop(CheckDims(role_profile), dimension_scores, Threshold(role_profile))>>

----------------------------------------------------------------------------
(* ingestion.py                                                            *)

\* A table is [columns, dtypes, cells]: the ordered column names, each
\* column's dtype and each column's cells.  A cell is [k, v]: "null" (NaN,
\* None, NaT), "num" (the number v), "text" (a string that is no date; v
\* tells such strings apart), "datetext" (a string that reads as the instant
\* v) or "ts" (the timestamp v).
Null == [k |-> "null", v |-> 0]
Num(n) == [k |-> "num", v |-> n]
Text(i) == [k |-> "text", v |-> i]
DateText(t) == [k |-> "datetext", v |-> t]

Int64 == <<"i", "n", "t", "6", "4">>
Float64 == <<"f", "l", "o", "a", "t", "6", "4">>
Object == <<"o", "b", "j", "e", "c", "t">>
Datetime64 == <<"d", "a", "t", "e", "t", "i", "m", "e", "6", "4", "[", "n", "s", "]">>

\* _infer_semantic_hint, lines 51-67
infer_semantic_hint(col_name, dtype) ==
    LET col_lower == Lower(col_name)
    IN  IF \/ Contains(<<"i", "d">>, col_lower)
           \/ Contains(<<"c", "o", "d", "e">>, col_lower)
           \/ Contains(<<"n", "u", "m", "b", "e", "r">>, col_lower)
        THEN "ID"
        ELSE IF \/ Contains(<<"a", "m", "o", "u", "n", "t">>, col_lower)
                \/ Contains(<<"p", "r", "i", "c", "e">>, col_lower)
                \/ Contains(<<"b", "a", "l", "a", "n", "c", "e">>, col_lower)
                \/ Contains(<<"f", "e", "e">>, col_lower)
        THEN "MONEY"
        ELSE IF \/ Contains(<<"d", "a", "t", "e">>, col_lower)
                \/ Contains(<<"t", "i", "m", "e">>, col_lower)
                \/ Contains(<<"c", "r", "e", "a", "t", "e", "d">>, col_lower)
        THEN "TIMESTAMP"
        ELSE IF \/ Contains(<<"s", "t", "a", "t", "u", "s">>, col_lower)
                \/ Contains(<<"s", "t", "a", "t", "e">>, col_lower)
                \/ Contains(<<"t", "y", "p", "e">>, col_lower)
        THEN "CATEGORY"
        ELSE "UNKNOWN"

\* ingestion.py, lines 139-145: the keys of the signals mapping
SignalNames ==
    {"has_transaction_id", "has_amount", "has_timestamp", "has_kyc", "is_text_heavy"}

NonNull(cells) == SelectSeq(cells, LAMBDA c : c.k # "null")

\* df.isnull().sum() and df.nunique(), lines 84-85
NullCount(cells) == Len(cells) - Len(NonNull(cells))
NUnique(cells) == Cardinality(Range(NonNull(cells)))

\* pd.api.types.is_numeric_dtype and is_datetime64_any_dtype
is_numeric_dtype(dtype) == dtype \in {Int64, Float64}
is_datetime64_any_dtype(dtype) == dtype = Datetime64

SetMin(S) == CHOOSE x \in S : \A y \in S : x <= y
SetMax(S) == CHOOSE x \in S : \A y \in S : y <= x

RECURSIVE IntSumSeq(_)
IntSumSeq(q) == IF q = <<>> THEN 0 ELSE Head(q).v + IntSumSeq(Tail(q))

\* lines 96-102: describe() of a numeric column; NaN becomes 0.0
NumericStats(cells) ==
    LET vals == NonNull(cells)
        S    == {vals[i].v : i \in 1..Len(vals)}
    IN  IF vals = <<>>
        THEN [min |-> Rat(0), max |-> Rat(0), mean |-> Rat(0)]
        ELSE [min |-> Rat(SetMin(S)), max |-> Rat(SetMax(S)),
              mean |-> Frac(IntSumSeq(vals), Len(vals))]

\* pd.to_datetime(..., errors='coerce') of one cell: the instant, in hours
\* since the epoch, or None (NaT).  A number is read as nanoseconds since the
\* epoch, which is hour 0.
to_datetime(c) ==
    CASE c.k = "num"      -> Some(0)
      [] c.k = "datetext" -> Some(c.v)
      [] c.k = "ts"       -> Some(c.v)
      [] OTHER            -> None

\* lines 108-110: the parsed instants that are not NaT
ValidTs(cells) ==
    {to_datetime(cells[i])[1] : i \in {j \in 1..Len(cells) : to_datetime(cells[j]) # None}}

\* line 106: the columns on which conversion is attempted
AttemptsParse(col, dtype) ==
    \/ Contains(<<"d", "a", "t", "e">>, Lower(col))
    \/ Contains(<<"t", "i", "m", "e">>, Lower(col))
    \/ is_datetime64_any_dtype(dtype)

\* lines 106-117: the columns that get an entry in timestamp_metrics
ParsedColumns(t) ==
    {col \in Range(t.columns) :
        AttemptsParse(col, t.dtypes[col]) /\ ValidTs(t.cells[col]) # {}}

\* lines 112-116
TimestampMetrics(cells) ==
    [min_time |-> SetMin(ValidTs(cells)),
     max_time |-> SetMax(ValidTs(cells)),
     range_seconds |-> (SetMax(ValidTs(cells)) - SetMin(ValidTs(cells))) * 3600]

\* lines 93 and 117: the name-based hint, overridden when parsing succeeds
SemanticHints(t) ==
    [col \in Range(t.columns) |->
        IF col \in ParsedColumns(t) THEN "TIMESTAMP"
        ELSE infer_semantic_hint(col, t.dtypes[col])]

\* line 130
kyc_terms ==
    {<<"u", "s", "e", "r">>, <<"c", "u", "s", "t", "o", "m", "e", "r">>,
     <<"e", "m", "a", "i", "l">>, <<"a", "d", "d", "r", "e", "s", "s">>,
     <<"i", "p">>, <<"p", "h", "o", "n", "e">>, <<"k", "y", "c">>,
     <<"n", "a", "m", "e">>}

\* lines 121-145
Signals(t) ==
    LET hints == SemanticHints(t)
        text_cols == {c \in Range(t.columns) :
                         \/ Contains(<<"o", "b", "j", "e", "c", "t">>, t.dtypes[c])
                         \/ Contains(<<"s", "t", "r", "i", "n", "g">>, t.dtypes[c])}
        plain_text_cols == {c \in text_cols : hints[c] \notin {"ID", "TIMESTAMP", "MONEY"}}
    IN  [g \in SignalNames |->
          CASE g = "has_transaction_id" -> \E c \in DOMAIN hints : hints[c] = "ID"
            [] g = "has_amount"         -> \E c \in DOMAIN hints : hints[c] = "MONEY"
            [] g = "has_timestamp"      -> \E c \in DOMAIN hints : hints[c] = "TIMESTAMP"
            [] g = "has_kyc"            ->
                 \E c \in Range(t.columns) : \E term \in kyc_terms : Contains(term, Lower(c))
            [] OTHER                    ->
                 IF t.columns # <<>>
                 THEN 2 * Cardinality(plain_text_cols) > Len(t.columns)
                 ELSE FALSE]

RowCount(t) == IF t.columns = <<>> THEN 0 ELSE Len(t.cells[t.columns[1]])

\* lines 147-149: the digest of the structural fields; a digest sha256(x) is
\* kept as the record of what was digested
Sha256(payload) == [sha256 |-> payload]

\* extract_metadata, lines 69-164
ExtractMetadata(t) ==
    LET null_counts   == [c \in Range(t.columns) |-> NullCount(t.cells[c])]
        unique_counts == [c \in Range(t.columns) |-> NUnique(t.cells[c])]
    IN  [column_names      |-> t.columns,
         data_types        |-> t.dtypes,
         row_count         |-> RowCount(t),
         null_counts       |-> null_counts,
         unique_counts     |-> unique_counts,
         numeric_stats     |-> [c \in {x \in Range(t.columns) : is_numeric_dtype(t.dtypes[x])}
                                  |-> NumericStats(t.cells[c])],
         timestamp_metrics |-> [c \in ParsedColumns(t) |-> TimestampMetrics(t.cells[c])],
         semantic_hints    |-> SemanticHints(t),
         signals           |-> Signals(t),
         audit_hash        |-> Sha256(<<t.columns, RowCount(t), null_counts,
                                        unique_counts, Signals(t)>>)]

----------------------------------------------------------------------------
(* dimensions.py                                                           *)

ColumnsHinted(m, hint) == {c \in DOMAIN m.semantic_hints : m.semantic_hints[c] = hint}

\* the mean of f over the set S of columns, times 100
RECURSIVE RatSumOver(_, _)
RatSumOver(S, f) ==
    IF S = {} THEN Rat(0)
    ELSE LET x == CHOOSE y \in S : TRUE IN RatAdd(f[x], RatSumOver(S \ {x}, f))

Clamp0100(q) == RatMax(Rat(0), RatMin(Rat(100), q))

\* score_completeness, lines 8-21
score_completeness(m) ==
    LET total_cells == m.row_count * Len(m.column_names)
        total_nulls == RatSumOver(DOMAIN m.null_counts,
                                  [c \in DOMAIN m.null_counts |-> Rat(m.null_counts[c])])
    IN  IF total_cells = 0 THEN Rat(0)
        ELSE Clamp0100(RatMul(RatDiv(RatSub(Rat(total_cells), total_nulls),
                                     Rat(total_cells)), Rat(100)))

\* score_uniqueness, lines 23-47
score_uniqueness(m) ==
    LET id_cols == ColumnsHinted(m, "ID")
        ratio == [c \in id_cols |->
                    IF m.row_count > 0
                    THEN Frac(Get(m.unique_counts, c, 0), m.row_count) ELSE Rat(0)]
    IN  IF id_cols = {} THEN Rat(100)
        ELSE Clamp0100(RatMul(RatDiv(RatSumOver(id_cols, ratio),
                                     Rat(Cardinality(id_cols))), Rat(100)))

\* score_validity, lines 49-83
score_validity(m) ==
    LET money_cols == ColumnsHinted(m, "MONEY")
        points == [c \in money_cols |->
                     IF RatLe(Rat(0), Get(Get(m.numeric_stats, c, <<>>), "min", Rat(0)))
                     THEN Rat(1) ELSE Frac(1, 2)]
    IN  IF money_cols = {} THEN Rat(100)
        ELSE RatMul(RatDiv(RatSumOver(money_cols, points),
                           Rat(Cardinality(money_cols))), Rat(100))

\* score_accuracy, lines 98-114: is_accurate for one column
IsAccurate(m, col) ==
    LET hint  == Get(m.semantic_hints, col, "UNKNOWN")
        dtype == Lower(Get(m.data_types, col, <<>>))
    IN  /\ hint = "MONEY" =>
              (Contains(<<"i", "n", "t">>, dtype) \/ Contains(<<"f", "l", "o", "a", "t">>, dtype))
        /\ hint = "TIMESTAMP" => col \in DOMAIN m.timestamp_metrics

\* score_accuracy, lines 85-118
score_accuracy(m) ==
    LET total_cols == Len(m.column_names)
        accurate_cols == Cardinality({i \in 1..total_cols : IsAccurate(m, m.column_names[i])})
    IN  IF total_cols = 0 THEN Rat(0)
        ELSE RatMul(Frac(accurate_cols, total_cols), Rat(100))

\* score_consistency, lines 120-146
score_consistency(m) ==
    LET cat_cols == ColumnsHinted(m, "CATEGORY")
        points == [c \in cat_cols |->
                     IF 0 < Get(m.unique_counts, c, 0) /\ Get(m.unique_counts, c, 0) < m.row_count
                     THEN Rat(1) ELSE Frac(1, 2)]
    IN  IF cat_cols = {} THEN Rat(100)
        ELSE RatMul(RatDiv(RatSumOver(cat_cols, points),
                           Rat(Cardinality(cat_cols))), Rat(100))

\* timedelta.days: whole days, rounded down
Days(hours) == hours \div 24

\* the recency score with the first bound read as "less than a day"
RecencyScore_StrictDay(clock, max_time) ==
    LET delta_days == Days(clock - max_time)
    IN  IF delta_days < 0 THEN Rat(0)
        ELSE IF delta_days < 1 THEN Rat(100)
        ELSE IF delta_days <= 30 THEN Rat(90)
        ELSE IF delta_days <= 365 THEN Rat(70)
        ELSE Rat(40)

\* score_timeliness, lines 173-185: the recency score of one column
RecencyScore(clock, max_time) ==
    LET delta_days == Days(clock - max_time)
    IN  IF delta_days < 0 THEN Rat(0)
        ELSE IF delta_days <= 1 THEN Rat(100)
        ELSE IF delta_days <= 30 THEN Rat(90)
        ELSE IF delta_days <= 365 THEN Rat(70)
        ELSE Rat(40)

\* a faulty variant: without timestamp metrics the score is 50.0 whether or
\* not a TIMESTAMP hint exists
score_timeliness_AlwaysExpected(m, clock) ==
    LET ts_cols == DOMAIN m.timestamp_metrics
        scores == [c \in ts_cols |-> RecencyScore(clock, m.timestamp_metrics[c].max_time)]
    IN  IF ts_cols = {} THEN Rat(50)
        ELSE RatDiv(RatSumOver(ts_cols, scores), Rat(Cardinality(ts_cols)))

\* score_timeliness, lines 148-189; clock is datetime.datetime.now()
score_timeliness(m, clock) ==
    LET ts_cols == DOMAIN m.timestamp_metrics
        scores == [c \in ts_cols |-> RecencyScore(clock, m.timestamp_metrics[c].max_time)]
    IN  IF ts_cols = {}
        THEN IF \E c \in DOMAIN m.semantic_hints : m.semantic_hints[c] = "TIMESTAMP"
             THEN Rat(50) ELSE Rat(100)
        ELSE RatDiv(RatSumOver(ts_cols, scores), Rat(Cardinality(ts_cols)))

\* score_integrity, line 210: nulls / row_count divides by zero
IntegrityDividesByZero(m) ==
    \E c \in ColumnsHinted(m, "ID") : Get(m.null_counts, c, 0) # 0 /\ m.row_count = 0

\* score_integrity without the floor at 0 of line 210
score_integrity_NoFloor(m) ==
    LET id_cols == ColumnsHinted(m, "ID")
        scores == [c \in id_cols |->
                     IF Get(m.null_counts, c, 0) = 0 THEN Rat(100)
                     ELSE RatSub(Rat(100),
                                 RatMul(Frac(Get(m.null_counts, c, 0), m.row_count),
                                        Rat(200)))]
    IN  IF id_cols = {} THEN Rat(100)
        ELSE RatDiv(RatSumOver(id_cols, scores), Rat(Cardinality(id_cols)))

\* score_integrity, lines 191-214
score_integrity(m) ==
    LET id_cols == ColumnsHinted(m, "ID")
        scores == [c \in id_cols |->
                     IF Get(m.null_counts, c, 0) = 0 THEN Rat(100)
                     ELSE RatMax(Rat(0),
                                 RatSub(Rat(100),
                                        RatMul(Frac(Get(m.null_counts, c, 0), m.row_count),
                                               Rat(200))))]
    IN  IF id_cols = {} THEN Rat(100)
        ELSE RatDiv(RatSumOver(id_cols, scores), Rat(Cardinality(id_cols)))

\* calculate_all_dimensions, lines 216-226
CalculateAllDimensions(m, clock) ==
    IF IntegrityDividesByZero(m) THEN Raise("ZeroDivisionError")
    ELSE Return([d \in Dims |->
           CASE d = "accuracy"     -> score_accuracy(m)
             [] d = "completeness" -> score_completeness(m)
             [] d = "consistency"  -> score_consistency(m)
             [] d = "timeliness"   -> score_timeliness(m, clock)
             [] d = "uniqueness"   -> score_uniqueness(m)
             [] d = "validity"     -> score_validity(m)
             [] OTHER              -> score_integrity(m)])

----------------------------------------------------------------------------
(* Calls of calculate_all_dimensions on a DatasetMetadata built directly,  *)
(* as the test stub of dimensions.py builds one (lines 233-242)            *)

MaxCols == 1
MaxRows == 2

\* the clock at the start, in hours since the epoch
NowBase == 24 * 20000

\* max_time values: one hour ahead of the clock, 1 day 12 hours and 400 days
\* behind it
MaxTimeInputs == {NowBase + 1, NowBase - 36, NowBase - 24 * 400}

\* what a column's dtype, numeric_stats entry and timestamp_metrics entry may be
ColumnShapes ==
    {[dtype |-> Float64, ts |-> None,
      stats |-> Some([min |-> Rat(-10), max |-> Rat(5), mean |-> Rat(1)])],
     [dtype |-> Int64, ts |-> None,
      stats |-> Some([min |-> Rat(0), max |-> Rat(5), mean |-> Rat(1)])],
     [dtype |-> Object, ts |-> None, stats |-> None]}
    \cup {[dtype |-> Object, stats |-> None,
           ts |-> Some([min_time |-> t, max_time |-> t, range_seconds |-> 0])] :
            t \in MaxTimeInputs}

Hints == {"ID", "MONEY", "TIMESTAMP", "CATEGORY", "UNKNOWN"}

ColumnInputs(rc) ==
    [hint : Hints, nulls : 0..rc, uniques : 0..rc, shape : ColumnShapes]

ColName(i) == <<"c", "o", "l">> \o <<LowerLetters[i]>>

\* DatasetMetadata(...) from one description per column
MetadataOf(rc, cs) ==
    LET names == [i \in 1..Len(cs) |-> ColName(i)]
        at(c) == cs[CHOOSE i \in 1..Len(cs) : names[i] = c]
    IN  [column_names      |-> names,
         data_types        |-> [c \in Range(names) |-> at(c).shape.dtype],
         row_count         |-> rc,
         null_counts       |-> [c \in Range(names) |-> at(c).nulls],
         unique_counts     |-> [c \in Range(names) |-> at(c).uniques],
         numeric_stats     |-> [c \in {x \in Range(names) : at(x).shape.stats # None}
                                  |-> at(c).shape.stats[1]],
         timestamp_metrics |-> [c \in {x \in Range(names) : at(x).shape.ts # None}
                                  |-> at(c).shape.ts[1]],
         semantic_hints    |-> [c \in Range(names) |-> at(c).hint],
         signals           |-> <<>>,
         audit_hash        |-> <<>>]

\* the counts of m lie between 0 and row_count
CountsWithinRows(m) ==
    /\ \A c \in DOMAIN m.null_counts : m.null_counts[c] \in 0..m.row_count
    /\ \A c \in DOMAIN m.unique_counts : m.unique_counts[c] \in 0..m.row_count

InitDimensions ==
    /\ df = None
    /\ runs = <<>>
    /\ now = NowBase
    /\ \E rc \in 0..MaxRows, n \in 0..MaxCols :
          \E cs \in [1..n -> ColumnInputs(rc)] : metadata = Some(MetadataOf(rc, cs))
    /\ dim_scores = None
    /\ base_dqs = None
    /\ frame = NoCall
    /\ ret = NoRet
    /\ PROFILES = PROFILES_AtImport
    /\ held = None
    /\ explanation = None

\* calculate_all_dimensions(metadata), lines 216-226
calculate_all_dimensions ==
    /\ df = None
    /\ metadata # None
    /\ dim_scores = None
    /\ dim_scores' = Some(CalculateAllDimensions(metadata[1], now))
    /\ UNCHANGED <<df, now, metadata, base_dqs, runs, frame, ret, PROFILES, held, explanation>>

\* calculate_base_dqs(dim_scores) on the scores returned, scoring.py lines 3-40
calculate_base_dqs_of_scores ==
    /\ df = None
    /\ dim_scores # None
    /\ dim_scores[1].kind = "return"
    /\ base_dqs = None
    /\ base_dqs' = Some(BaseDqsResult(dim_scores[1].value, None))
    /\ UNCHANGED <<df, now, metadata, dim_scores, runs, frame, ret, PROFILES, held, explanation>>

NextDimensions ==
    \/ calculate_all_dimensions
    \/ calculate_base_dqs_of_scores

SpecDimensions == InitDimensions /\ [][NextDimensions]_vars

(* C1: for metadata whose null and distinct counts lie between 0 and       *)
(* row_count, calculate_all_dimensions returns seven scores, each in       *)
(* [0, 100], and the base score computed from them with the default        *)
(* weights lies in [0, 100].                                               *)
C1_ScoresInRange ==
    (metadata # None /\ df = None /\ CountsWithinRows(metadata[1])) =>
        /\ dim_scores # None =>
              /\ dim_scores[1].kind = "return"
              /\ DOMAIN dim_scores[1].value = Dims
              /\ \A d \in Dims : InRange0100(dim_scores[1].value[d])
        /\ base_dqs # None =>
              /\ base_dqs[1].kind = "return"
              /\ InRange0100(base_dqs[1].value)

C1_Witness ==
    /\ metadata # None
    /\ df = None
    /\ metadata[1].row_count = MaxRows
    /\ \E c \in DOMAIN metadata[1].semantic_hints :
          /\ metadata[1].semantic_hints[c] = "ID"
          /\ metadata[1].null_counts[c] = MaxRows
    /\ dim_scores # None
    /\ dim_scores[1].value["integrity"] = Rat(0)
    /\ base_dqs # None
    /\ base_dqs[1].kind = "return"

----------------------------------------------------------------------------
(* The core run on an uploaded table: extract_metadata,                    *)
(* calculate_all_dimensions and calculate_base_dqs in turn, as the body of *)
(* process_data calls them (dashboard.py, lines 51-53), each run a fresh   *)
(* evaluation.  The clock moves between runs.                              *)

\* the clock moves a day at a time, MaxTicks times at most
MaxTicks == 2

ColId == <<"i", "d">>
ColAmount == <<"a", "m", "o", "u", "n", "t">>
ColOrderDate == <<"o", "r", "d", "e", "r", "_", "d", "a", "t", "e">>
ColCreated == <<"c", "r", "e", "a", "t", "e", "d">>
ColStatus == <<"s", "t", "a", "t", "u", "s">>
ColEmail == <<"e", "m", "a", "i", "l">>

\* a date 12 hours before the first clock reading, and one 36 hours after it
DateBefore == NowBase - 12
DateAfter == NowBase + 36

\* the columns a table is made of: a name, a dtype and the cells it may hold
ColumnCatalog ==
    {[name |-> ColId, dtype |-> Object, values |-> {Null, Text(1), Text(2)}],
     [name |-> ColAmount, dtype |-> Float64, values |-> {Num(-10), Num(5)}],
     [name |-> ColAmount, dtype |-> Object, values |-> {Text(1)}],
     [name |-> ColOrderDate, dtype |-> Object,
      values |-> {Text(1), DateText(DateBefore), DateText(DateAfter)}],
     [name |-> ColCreated, dtype |-> Object, values |-> {Null, DateText(DateBefore)}],
     [name |-> ColStatus, dtype |-> Object, values |-> {Text(1), Text(2)}],
     [name |-> ColEmail, dtype |-> Object, values |-> {Null, Text(1)}]}

ColumnsOfRows(r) ==
    UNION {{[name |-> e.name, dtype |-> e.dtype, cells |-> cs] : cs \in [1..r -> e.values]} :
              e \in ColumnCatalog}

\* the DataFrame with the given columns
TableOf(cols) ==
    LET names == [i \in 1..Len(cols) |-> cols[i].name]
        at(c) == cols[CHOOSE i \in 1..Len(cols) : names[i] = c]
    IN  [columns |-> names,
         dtypes  |-> [c \in Range(names) |-> at(c).dtype],
         cells   |-> [c \in Range(names) |-> at(c).cells]]

DistinctNames(cols) ==
    \A i, j \in 1..Len(cols) : i # j => cols[i].name # cols[j].name

\* pd.read_csv (dashboard.py, line 50) gives a table of one column or more:
\* it raises on a file without a header line
Init ==
    /\ \E n \in 1..MaxCols, r \in 0..MaxRows :
          \E cols \in [1..n -> ColumnsOfRows(r)] :
              /\ DistinctNames(cols)
              /\ df = Some(TableOf(cols))
    /\ now = NowBase
    /\ metadata = None
    /\ dim_scores = None
    /\ base_dqs = None
    /\ runs = <<>>
    /\ frame = NoCall
    /\ ret = NoRet
    /\ PROFILES = PROFILES_AtImport
    /\ held = None
    /\ explanation = None

\* time passes
Tick ==
    /\ df # None
    /\ now < NowBase + MaxTicks * 24
    /\ now' = now + 24
    /\ UNCHANGED <<df, metadata, dim_scores, base_dqs, runs, frame, ret, PROFILES, held, explanation>>

\* dashboard.py, lines 51-53: the three core calls on the table
process_data ==
    /\ df # None
    /\ Len(runs) < 2
    /\ metadata' = Some(ExtractMetadata(df[1]))
    /\ dim_scores' = Some(CalculateAllDimensions(metadata'[1], now))
    /\ base_dqs' = IF dim_scores'[1].kind = "return"
                   THEN Some(BaseDqsResult(dim_scores'[1].value, None)) ELSE None
    /\ runs' = Append(runs, [clock |-> now, metadata |-> metadata'[1],
                             dim_scores |-> dim_scores'[1], base_dqs |-> base_dqs'])
    /\ UNCHANGED <<df, now, frame, ret, PROFILES, held, explanation>>

Next ==
    \/ Tick
    \/ process_data

Spec == Init /\ [][Next]_vars

AgeBucket(age) ==
    IF age < 0 THEN "future"
    ELSE IF age < 2 * 24 THEN "real-time"
    ELSE IF age < 31 * 24 THEN "fresh"
    ELSE IF age < 366 * 24 THEN "historical"
    ELSE "stale"

SameBuckets(m, t1, t2) ==
    \A c \in DOMAIN m.timestamp_metrics :
        AgeBucket(t1 - m.timestamp_metrics[c].max_time)
            = AgeBucket(t2 - m.timestamp_metrics[c].max_time)

----------------------------------------------------------------------------
(* Calls of calculate_base_dqs                                             *)

\* A low score for each dimension, among those the scorers produce
LowScore(d) ==
    CASE d = "accuracy"     -> Rat(0)
      [] d = "completeness" -> Frac(25, 2)
      [] d = "consistency"  -> Rat(50)
      [] d = "timeliness"   -> Rat(40)
      [] d = "uniqueness"   -> Frac(100, 3)
      [] d = "validity"     -> Rat(50)
      [] OTHER              -> Rat(0)

\* dimension_scores arguments: any subset of the seven keys, each low or 100
ScoringScoreMaps ==
    {[d \in present |-> IF d \in high THEN Rat(100) ELSE LowScore(d)] :
        present \in SUBSET Dims, high \in SUBSET Dims}

TenThousandths(n) == Frac(n, 10000)
Only(d, w) == [x \in {d} |-> w]

\* the custom weights of the example in scoring.py, lines 60-68
PaymentWeights ==
    [d \in Dims |-> IF d \in {"uniqueness", "validity", "integrity"}
                    THEN TenThousandths(2000) ELSE TenThousandths(1000)]

HalfHalf == [d \in {"accuracy", "completeness"} |-> TenThousandths(5000)]

\* weights arguments: None, and mappings inside, on the edge of and outside the
\* tolerance; partial mappings; a negative weight; a key beyond the seven
ScoringWeightArgs ==
    {None, Some(PaymentWeights), Some(DefaultWeights), Some(HalfHalf), Some(<<>>)}
    \cup {Some(Only("accuracy", TenThousandths(n))) :
            n \in {5000, 9989, 9990, 9995, 10000, 10005, 10010, 10011}}
    \cup {Some([d \in Dims |-> TenThousandths(1430)]),
          Some([d \in Dims |-> TenThousandths(1500)]),
          Some([d \in {"accuracy", "completeness"} |->
                   IF d = "accuracy" THEN Rat(2) ELSE Rat(-1)]),
          Some([d \in Dims \cup {"extra"} |->
                   IF d = "extra" THEN TenThousandths(-4000) ELSE TenThousandths(2000)])}

BaseDqsCall(ds, w) ==
    [fn |-> "calculate_base_dqs", pc |-> "validate",
     args |-> [dimension_scores |-> ds, weights |-> w],
     weights |-> w, scores |-> None, dqs_base |-> None]

InitScoring ==
    /\ PipelineIdle
    /\ PROFILES = PROFILES_AtImport
    /\ held = None
    /\ explanation = None
    /\ frame \in {BaseDqsCall(ds, w) : ds \in ScoringScoreMaps, w \in ScoringWeightArgs}
    /\ ret = NoRet

NextScoring ==
    \/ calculate_base_dqs_validate
    \/ calculate_base_dqs_aggregate

SpecScoring == InitScoring /\ [][NextScoring]_vars

InScoringCall == frame.fn = "calculate_base_dqs"
ScoringDone == InScoringCall /\ frame.pc = "done"

\* |sum - 1.0| <= 0.001, stated on the sum itself
WithinTolerance(w) ==
    /\ RatLe(Frac(999, 1000), SumValues(w))
    /\ RatLe(SumValues(w), Frac(1001, 1000))

(* C6: a call with explicit weights returns a score exactly when the values *)
(* sum to within 0.001 of 1.0; otherwise it raises the weight error         *)
(* (ValueError in the code), and raises it before the weighted sum is       *)
(* computed.                                                                *)
C6_WeightValidity ==
    (InScoringCall /\ frame.args.weights # None) =>
        LET w == frame.args.weights[1] IN
        /\ frame.pc = "aggregate" => WithinTolerance(w)
        /\ ret.kind = "return" => WithinTolerance(w)
        /\ ret.kind = "raise" =>
              /\ ~WithinTolerance(w)
              /\ ret.exc = "ValueError"
              /\ frame.dqs_base = None
        /\ frame.pc = "done" =>
              IF WithinTolerance(w) THEN ret.kind = "return" ELSE ret.kind = "raise"

C6_Witness ==
    /\ ScoringDone
    /\ frame.args.weights = Some(Only("accuracy", TenThousandths(10011)))
    /\ ret.kind = "raise"

\* the mean of the seven scores, a missing key counting as 0
MeanOfSeven(ds) ==
    RatDiv(RatSumSeq([i \in 1..Len(required_dimensions) |->
                        Get(ds, required_dimensions[i], Rat(0))]),
           Rat(Len(required_dimensions)))

(* C7: with no explicit weights the call returns the mean of the seven     *)
(* dimension scores rounded to 2 decimals, a missing key counting as 0.    *)
C7_DefaultWeights ==
    (ScoringDone /\ frame.args.weights = None) =>
        /\ ret.kind = "return"
        /\ ret.value = Round2(MeanOfSeven(frame.args.dimension_scores))

C7_Witness ==
    /\ ScoringDone
    /\ frame.args.weights = None
    /\ DOMAIN frame.args.dimension_scores = Dims \ {"accuracy", "validity"}
    /\ ret.kind = "return"
    /\ RatLt(Rat(0), ret.value)

\* the weighted sum over the keys the mapping provides, and no others
ProvidedOnlySum(ds, w) ==
    LET keys == SetToSeq(DOMAIN w \cap Dims)
    IN  RatSumSeq([i \in 1..Len(keys) |-> RatMul(w[keys[i]], Get(ds, keys[i], Rat(0)))])

(* C8: an accepted explicit mapping is used as given: a dimension it omits *)
(* has weight 0, and the 1/7 fallback replaces the mapping only when        *)
(* weights is None.                                                         *)
C8_PartialWeights ==
    (InScoringCall /\ frame.pc # "validate") =>
        /\ frame.args.weights # None => frame.weights = frame.args.weights
        /\ frame.args.weights = None => frame.weights = Some(DefaultWeights)
        /\ (frame.args.weights # None /\ ret.kind = "return") =>
              ret.value = Round2(ProvidedOnlySum(frame.args.dimension_scores,
                                                 frame.args.weights[1]))

C8_Witness ==
    /\ ScoringDone
    /\ frame.args.weights = Some(HalfHalf)
    /\ frame.args.dimension_scores = [d \in Dims |-> Rat(100)]
    /\ ret = Return(Rat(100))

(* C9: for scores in [0, 100] and every accepted mapping over a superset of *)
(* the seven dimensions, the returned base score lies in [0, 100].          *)
C9_RangeUnderCustomWeights ==
    (/\ ScoringDone
     /\ frame.args.weights # None
     /\ Dims \subseteq DOMAIN frame.args.weights[1]
     /\ \A d \in DOMAIN frame.args.dimension_scores :
            InRange0100(frame.args.dimension_scores[d])
     /\ ret.kind = "return")
        => InRange0100(ret.value)

----------------------------------------------------------------------------
(* roles.py: the calls                                                     *)

\* get_role_profile, lines 70-77
get_role_profile ==
    /\ frame.fn = "get_role_profile"
    /\ frame.pc = "call"
    /\ frame' = [frame EXCEPT !.pc = "done"]
    /\ ret' = Return(GetRoleProfile(PROFILES, frame.args.role_name))
    /\ held' = Some(ReturnedDict(PROFILES, frame.args.role_name))
    /\ UNCHANGED <<df, now, metadata, dim_scores, base_dqs, runs, PROFILES, explanation>>

\* calculate_role_score, lines 91-131
calculate_role_score ==
    /\ frame.fn = "calculate_role_score"
    /\ frame.pc = "call"
    /\ frame' = [frame EXCEPT !.pc = "done",
                              !.alpha = EnforceAlpha(frame.args.alpha)]
    /\ ret' = Return(RoleScoreResult(frame.args.base_dqs, frame.args.dimension_scores,
                                     frame.args.role_profile, frame.args.metadata,
                                     frame.args.alpha))
    /\ UNCHANGED <<df, now, metadata, dim_scores, base_dqs, runs, PROFILES, held, explanation>>

----------------------------------------------------------------------------
(* Calls of get_role_profile and calculate_role_score                      *)

Auditor == <<"A", "u", "d", "i", "t", "o", "r">>

\* role_name arguments: the six names in three spellings, and names that match none
RoleNameInputs ==
    UNION {{ProfileOrder[i], Lower(ProfileOrder[i]), Upper(ProfileOrder[i])} :
              i \in 1..Len(ProfileOrder)}
    \cup {Auditor, <<>>, SubSeq(DataEngineer, 1, 4), FraudAnalyst \o <<" ">>}

\* signals mappings: every truth value of the three signals a built-in profile
\* requires, the empty mapping, and a mapping with a single key
SignalMaps ==
    {[g \in SignalNames |-> g \in on] :
        on \in SUBSET {"has_transaction_id", "has_amount", "has_kyc"}}
    \cup {<<>>, Only("has_amount", TRUE)}

MetadataArgs ==
    {MetaNone} \cup {MetaRecord(g) : g \in SignalMaps} \cup {MetaDict(g) : g \in SignalMaps}

\* profiles a caller may build: no optional keys; two required signals;
\* a threshold of 0
CustomProfiles ==
    {[role_name |-> Auditor, description |-> "custom", risk_level |-> "custom",
      weights |-> DefaultWeights],
     [role_name |-> Auditor, description |-> "custom", risk_level |-> "custom",
      weights |-> PaymentWeights,
      critical_dimensions |-> <<"timeliness", "accuracy", "integrity">>,
      risk_threshold |-> 80,
      required_signals |-> <<"has_amount", "has_kyc">>],
     [role_name |-> Auditor, description |-> "custom", risk_level |-> "custom",
      weights |-> PaymentWeights,
      critical_dimensions |-> <<"accuracy">>,
      risk_threshold |-> 0,
      required_signals |-> <<>>]}

RoleProfileArgs ==
    {GetRoleProfile(PROFILES_AtImport, ProfileOrder[i]) : i \in 1..Len(ProfileOrder)}
    \cup CustomProfiles

AllAt(v) == [d \in Dims |-> v]

\* dimension_scores arguments: every dimension at one value (among them each
\* built-in threshold), one dimension low, one key missing, no keys, an extra key
RoleScoreMaps ==
    {AllAt(Rat(v)) : v \in {0, 60, 70, 75, 80, 85, 90, 95}}
    \cup {[AllAt(Rat(95)) EXCEPT ![d] = Frac(1499, 20)] : d \in Dims}
    \cup {[d \in Dims \ {x} |-> Rat(95)] : x \in Dims}
    \cup {<<>>, [d \in Dims \cup {"freshness"} |-> Rat(95)]}

AlphaArgs == {Rat(0), Frac(59, 100), Frac(6, 10), Frac(9, 10)}
BaseDqsArgs == {Rat(0), Frac(8571, 100)}

RoleScoreCall(b, ds, p, m, a) ==
    [fn |-> "calculate_role_score", pc |-> "call",
     args |-> [base_dqs |-> b, dimension_scores |-> ds, role_profile |-> p,
               metadata |-> m, alpha |-> a],
     alpha |-> a]

GetProfileCall(n) ==
    [fn |-> "get_role_profile", pc |-> "call", args |-> [role_name |-> n]]

InitRoles ==
    /\ PipelineIdle
    /\ PROFILES = PROFILES_AtImport
    /\ held = None
    /\ explanation = None
    /\ frame \in {GetProfileCall(n) : n \in RoleNameInputs}
         \cup {RoleScoreCall(b, ds, p, m, a) :
                 b \in BaseDqsArgs, ds \in RoleScoreMaps, p \in RoleProfileArgs,
                 m \in MetadataArgs, a \in AlphaArgs}
    /\ ret = NoRet

NextRoles ==
    \/ get_role_profile
    \/ calculate_role_score

SpecRoles == InitRoles /\ [][NextRoles]_vars

RoleScoreDone == frame.fn = "calculate_role_score" /\ frame.pc = "done"
GetProfileDone == frame.fn = "get_role_profile" /\ frame.pc = "done"

\* the signals a metadata argument carries, whichever way it carries them
CarriesSignals(m) == m.obj \in {"record", "dict"}
SignalsOf(m) == IF m.obj = "record" THEN m.signals ELSE m.items

\* some required signal of p is absent from g or false in it
LacksRequired(p, g) ==
    \E i \in 1..Len(Get(p, "required_signals", <<>>)) :
        ~Get(g, p.required_signals[i], FALSE)

(* C3: whenever a required signal of the profile is absent or false in the *)
(* signals handed to calculate_role_score, as a record or as a bare        *)
(* mapping, the result is (None, False).                                   *)
C3_ApplicabilityGating ==
    (/\ RoleScoreDone
     /\ CarriesSignals(frame.args.metadata)
     /\ LacksRequired(frame.args.role_profile, SignalsOf(frame.args.metadata)))
        => ret.value = <<None, FALSE>>

\* the same, for a record with a signals attribute only
C3_GatingOnRecords ==
    (/\ RoleScoreDone
     /\ frame.args.metadata.obj = "record"
     /\ LacksRequired(frame.args.role_profile, frame.args.metadata.signals))
        => ret.value = <<None, FALSE>>

Perms(q) == {[i \in 1..Len(q) |-> q[f[i]]] : f \in Permutations(1..Len(q))}

ScoreOf(ds, d) == Get(ds, d, Rat(0))

(* C4: when a score is returned, the risk flag is true iff some critical   *)
(* dimension scores strictly below the threshold (a missing score counting *)
(* as 0); every order of the critical dimensions gives the same flag; with *)
(* no critical dimensions the flag is false.                               *)
C4_RiskDetection ==
    (RoleScoreDone /\ ret.value[1] # None) =>
        LET p    == frame.args.role_profile
            ds   == frame.args.dimension_scores
            crit == Get(p, "critical_dimensions", <<>>)
            t    == Get(p, "risk_threshold", 75)
            risk == ret.value[2]
        IN  /\ risk <=> \E d \in Range(crit) : RatLt(ScoreOf(ds, d), Rat(t))
            /\ \A q \in Perms(crit) : RiskLoop(q, ds, t) = risk
            /\ crit = <<>> => ~risk

C4_Witness ==
    /\ RoleScoreDone
    /\ frame.args.role_profile = GetRoleProfile(PROFILES_AtImport, DataEngineer)
    /\ frame.args.dimension_scores = [AllAt(Rat(95)) EXCEPT !["accuracy"] = Frac(1499, 20)]
    /\ ret.value[1] # None
    /\ ret.value[2] = TRUE

\* the role component over the seven dimensions, a missing score counting as 0
RoleComponentOfSeven(p, ds) ==
    RatSumSeq([i \in 1..Len(required_dimensions) |->
        RatMul(Get(p.weights, required_dimensions[i], Rat(0)),
               ScoreOf(ds, required_dimensions[i]))])

Blend(a, b, rc) == RatAdd(RatMul(a, b), RatMul(RatSub(Rat(1), a), rc))

(* C5: a requested alpha below 0.6 is replaced by 0.6 and any other is     *)
(* used unchanged; the returned score is the blend at that alpha rounded   *)
(* to 2 decimals, so the base score enters with a factor of at least 0.6.  *)
C5_AlphaFloor ==
    (RoleScoreDone /\ ret.value[1] # None) =>
        LET a  == frame.args.alpha
            b  == frame.args.base_dqs
            rc == RoleComponentOfSeven(frame.args.role_profile, frame.args.dimension_scores)
        IN  /\ RatLt(a, Frac(6, 10)) =>
                  /\ frame.alpha = Frac(6, 10)
                  /\ ret.value[1] = Some(Round2(Blend(Frac(6, 10), b, rc)))
            /\ ~RatLt(a, Frac(6, 10)) =>
                  /\ frame.alpha = a
                  /\ ret.value[1] = Some(Round2(Blend(a, b, rc)))
            /\ RatLe(RatMul(Frac(6, 10), b), RatMul(frame.alpha, b))

C5_Witness ==
    /\ RoleScoreDone
    /\ frame.args.alpha = Rat(0)
    /\ frame.args.base_dqs = Frac(8571, 100)
    /\ frame.args.dimension_scores = AllAt(Rat(0))
    /\ ret.value[1] = Some(Frac(5143, 100))

\* the built-in names that equal n when case is ignored
MatchesIgnoringCase(n) ==
    {k \in Range(ProfileOrder) : Lower(k) = Lower(n)}

(* C10: get_role_profile never raises; it returns the built-in profile     *)
(* whose name equals the argument ignoring case, and the "Executive /      *)
(* Leadership" profile for a name that matches none of the six.            *)
C10_ProfileLookup ==
    GetProfileDone =>
        LET n == frame.args.role_name
            k == IF MatchesIgnoringCase(n) = {} THEN ExecutiveLeadership
                 ELSE CHOOSE x \in MatchesIgnoringCase(n) : TRUE
        IN  /\ ret.kind = "return"
            /\ ret.value.role_name = k
            /\ ret.value.role_name \in Range(ProfileOrder)
            /\ \A f \in DOMAIN PROFILES_AtImport[k] :
                   ret.value[f] = PROFILES_AtImport[k][f]

C10_Witness ==
    /\ GetProfileDone
    /\ frame.args.role_name = Auditor
    /\ ret.kind = "return"
    /\ ret.value.role_name = ExecutiveLeadership

----------------------------------------------------------------------------
(* A caller that looks profiles up and edits the dicts it gets             *)

\* the names looked up: two spellings of built-in names
CatalogLookups == {FraudAnalyst, Lower(DataEngineer)}

\* the caller calls get_role_profile(n)
caller_calls_get_role_profile ==
    /\ frame.pc # "call"
    /\ \E n \in CatalogLookups : frame' = GetProfileCall(n)
    /\ ret' = NoRet
    /\ UNCHANGED <<df, now, metadata, dim_scores, base_dqs, runs, PROFILES, held, explanation>>

\* profile['weights']['accuracy'] = 0.9
caller_sets_weight ==
    /\ held # None
    /\ IF "weights" \in held[1].shares
       THEN /\ PROFILES' = [PROFILES EXCEPT ![held[1].key].weights["accuracy"] = Frac(9, 10)]
            /\ held' = held
       ELSE /\ held' = Some([held[1] EXCEPT !.top.weights["accuracy"] = Frac(9, 10)])
            /\ PROFILES' = PROFILES
    /\ UNCHANGED <<df, now, metadata, dim_scores, base_dqs, runs, frame, ret, explanation>>

\* profile[f].append(x), for a list f that does not hold x yet
CallerAppends(f, x) ==
    /\ held # None
    /\ x \notin Range(ViewOf(PROFILES, held[1])[f])
    /\ IF f \in held[1].shares
       THEN /\ PROFILES' = [PROFILES EXCEPT ![held[1].key][f] = Append(@, x)]
            /\ held' = held
       ELSE /\ held' = Some([held[1] EXCEPT !.top[f] = Append(@, x)])
            /\ PROFILES' = PROFILES
    /\ UNCHANGED <<df, now, metadata, dim_scores, base_dqs, runs, frame, ret, explanation>>

\* profile['critical_dimensions'].append('integrity')
caller_appends_critical_dimension == CallerAppends("critical_dimensions", "integrity")

\* profile['required_signals'].append('has_kyc')
caller_appends_required_signal == CallerAppends("required_signals", "has_kyc")

\* profile[f] = v: the item is bound to a new object
CallerRebinds(f, v) ==
    /\ held # None
    /\ ViewOf(PROFILES, held[1])[f] # v
    /\ held' = Some([key    |-> held[1].key,
                     top    |-> [g \in DOMAIN held[1].top \cup {f} |->
                                    IF g = f THEN v ELSE held[1].top[g]],
                     shares |-> held[1].shares \ {f}])
    /\ UNCHANGED <<df, now, metadata, dim_scores, base_dqs, runs, frame, ret, PROFILES,
                   explanation>>

\* profile['weights'] = {...} and profile['risk_threshold'] = 0
caller_rebinds_weights == CallerRebinds("weights", DefaultWeights)
caller_rebinds_threshold == CallerRebinds("risk_threshold", 0)

InitCatalog ==
    /\ PipelineIdle
    /\ PROFILES = PROFILES_AtImport
    /\ held = None
    /\ explanation = None
    /\ frame = NoCall
    /\ ret = NoRet

NextCatalog ==
    \/ caller_calls_get_role_profile
    \/ get_role_profile
    \/ caller_sets_weight
    \/ caller_appends_critical_dimension
    \/ caller_appends_required_signal
    \/ caller_rebinds_weights
    \/ caller_rebinds_threshold

SpecCatalog == InitCatalog /\ [][NextCatalog]_vars

(* C11: after any sequence of lookups and of caller changes to returned    *)
(* profiles, the catalog is as it was at import, and every lookup returns  *)
(* the original weights, critical dimensions, threshold and required       *)
(* signals of the profile it resolves to.                                  *)
C11_CatalogImmutable ==
    /\ PROFILES = PROFILES_AtImport
    /\ GetProfileDone =>
          \A f \in {"weights", "critical_dimensions", "risk_threshold", "required_signals"} :
              ret.value[f] = PROFILES_AtImport[ret.value.role_name][f]

----------------------------------------------------------------------------
(* binary64 arithmetic, for the weights that _make_weights computes        *)

\* A binary64 value that is not negative is [m, e]: the bits of its
\* significand, most significant first, without leading or trailing zeros, and
\* the exponent of the last bit; zero is [m |-> <<>>, e |-> 0].
Zeros(n) == [i \in 1..n |-> 0]

\* the positions of the first and the last 1 of a bit string that holds one
FirstOne(b) == CHOOSE i \in 1..Len(b) : b[i] = 1 /\ \A j \in 1..(i - 1) : b[j] = 0
LastOne(b) == CHOOSE i \in 1..Len(b) : b[i] = 1 /\ \A j \in (i + 1)..Len(b) : b[j] = 0

Canon(m, e) ==
    IF \A i \in 1..Len(m) : m[i] = 0 THEN [m |-> <<>>, e |-> 0]
    ELSE [m |-> SubSeq(m, FirstOne(m), LastOne(m)), e |-> e + Len(m) - LastOne(m)]

\* Adding the bits lo..hi of a and b: does a carry leave the block when none
\* enters it (g), and when one enters it (p)
RECURSIVE CarryOut(_, _, _, _)
CarryOut(a, b, lo, hi) ==
    IF lo = hi THEN [g |-> a[lo] + b[lo] >= 2, p |-> a[lo] + b[lo] >= 1]
    ELSE LET mid   == (lo + hi) \div 2
             left  == CarryOut(a, b, lo, mid)
             right == CarryOut(a, b, mid + 1, hi)
         IN  [g |-> IF right.g THEN left.p ELSE left.g,
              p |-> IF right.p THEN left.p ELSE left.g]

\* the carry into position i when the bit strings a and b of one length are added
Carry(a, b, i) == IF i = Len(a) THEN 0 ELSE IF CarryOut(a, b, i + 1, Len(a)).g THEN 1 ELSE 0

BitsAdd(a, b) ==
    LET x == <<0>> \o a
        y == <<0>> \o b
    IN  [i \in 1..Len(x) |-> (x[i] + y[i] + Carry(x, y, i)) % 2]

\* Taking the bits lo..hi of b from those of a: is a borrow asked of the next
\* position when none is asked of the block (g), and when one is (p)
RECURSIVE BorrowOut(_, _, _, _)
BorrowOut(a, b, lo, hi) ==
    IF lo = hi THEN [g |-> a[lo] < b[lo], p |-> a[lo] <= b[lo]]
    ELSE LET mid   == (lo + hi) \div 2
             left  == BorrowOut(a, b, lo, mid)
             right == BorrowOut(a, b, mid + 1, hi)
         IN  [g |-> IF right.g THEN left.p ELSE left.g,
              p |-> IF right.p THEN left.p ELSE left.g]

\* the borrow asked of position i when b is taken from a, a >= b
Borrow(a, b, i) == IF i = Len(a) THEN 0 ELSE IF BorrowOut(a, b, i + 1, Len(a)).g THEN 1 ELSE 0

BitsSub(a, b) == [i \in 1..Len(a) |-> (a[i] - b[i] - Borrow(a, b, i) + 2) % 2]

\* the significand of x written down to exponent e and up to n bits
Widen(x, e, n) ==
    LET low == x.m \o Zeros(IF x.m = <<>> THEN 0 ELSE x.e - e)
    IN  Zeros(n - Len(low)) \o low

IntMax(a, b) == IF a >= b THEN a ELSE b
IntMin(a, b) == IF a <= b THEN a ELSE b

Width(x, e) == IF x.m = <<>> THEN 0 ELSE Len(x.m) + x.e - e

\* rounding to 53 significant bits, ties to even
Round53(x) ==
    IF Len(x.m) <= 53 THEN x
    ELSE LET keep   == SubSeq(x.m, 1, 53)
             rest   == SubSeq(x.m, 54, Len(x.m))
             sticky == \E i \in 2..Len(rest) : rest[i] = 1
             up     == rest[1] = 1 /\ (sticky \/ keep[53] = 1)
             one    == Zeros(52) \o <<1>>
         IN  Canon(IF up THEN BitsAdd(keep, one) ELSE keep, x.e + Len(rest))

\* x + y and x - y (x >= y), exact
ExactAdd(x, y) ==
    LET e == IntMin(x.e, y.e)
        n == IntMax(Width(x, e), Width(y, e))
    IN  Canon(BitsAdd(Widen(x, e, n), Widen(y, e, n)), e)

ExactSub(x, y) ==
    LET e == IntMin(x.e, y.e)
        n == IntMax(Width(x, e), Width(y, e))
    IN  Canon(BitsSub(Widen(x, e, n), Widen(y, e, n)), e)

\* the float operations x + y, x - y
F64Add(x, y) == Round53(ExactAdd(x, y))
F64Sub(x, y) == Round53(ExactSub(x, y))

\* 2^k modulo n
RECURSIVE Pow2Mod(_, _)
Pow2Mod(k, n) ==
    IF k = 0 THEN 1 % n
    ELSE LET h == Pow2Mod(k \div 2, n) IN (h * h * (IF k % 2 = 1 THEN 2 ELSE 1)) % n

\* the number written by the bits lo..hi of b, modulo n
RECURSIVE ModBits(_, _, _, _)
ModBits(b, n, lo, hi) ==
    IF lo > hi THEN 0
    ELSE IF lo = hi THEN b[lo] % n
    ELSE LET mid == (lo + hi) \div 2
         IN  (ModBits(b, n, lo, mid) * Pow2Mod(hi - mid, n) + ModBits(b, n, mid + 1, hi)) % n

\* long division of a bit string by n: the remainder after the first i bits
Rem(b, n, i) == ModBits(b, n, 1, i)

\* x / n for an integer n > 0: the quotient to 60 more bits, a last bit
\* telling whether anything is left, rounded
F64DivInt(x, n) ==
    LET b == x.m \o Zeros(60)
        q == [i \in 1..Len(b) |-> (2 * Rem(b, n, i - 1) + b[i]) \div n]
        s == IF Rem(b, n, Len(b)) = 0 THEN 0 ELSE 1
    IN  IF x.m = <<>> THEN x
        ELSE Round53(Canon(q \o <<s>>, x.e - 60 - 1))

RECURSIVE NatBits(_)
NatBits(k) == IF k = 0 THEN <<>> ELSE NatBits(k \div 2) \o <<k % 2>>

F64OfNat(k) == Canon(NatBits(k), 0)

\* the literal with the given number of hundredths: 0.25 is F64Lit(25)
F64Lit(c) == F64DivInt(F64OfNat(c), 100)

F64Zero == F64OfNat(0)
F64One == F64OfNat(1)

\* sum(values): the additions from left to right, starting at 0
RECURSIVE F64Sum(_)
F64Sum(q) == IF q = <<>> THEN F64Zero ELSE F64Add(F64Sum(SubSeq(q, 1, Len(q) - 1)), q[Len(q)])

----------------------------------------------------------------------------
(* Calls of _make_weights.  A focus_map is the sequence of its items,      *)
(* <<dimension, hundredths>>, in the order they are written.               *)

\* roles.py, lines 23, 31, 39, 47, 55 and 63: the focus maps of PROFILES
BuiltInFocus(k) ==
    CASE k = DataEngineer ->
           <<<<"completeness", 25>>, <<"integrity", 25>>, <<"accuracy", 20>>>>
      [] k = DataScientist ->
           <<<<"consistency", 25>>, <<"validity", 20>>, <<"completeness", 20>>>>
      [] k = FraudAnalyst ->
           <<<<"uniqueness", 30>>, <<"timeliness", 30>>, <<"validity", 10>>>>
      [] k = ComplianceOfficer ->
           <<<<"accuracy", 25>>, <<"integrity", 25>>, <<"completeness", 20>>>>
      [] k = FinanceSettlement ->
           <<<<"accuracy", 30>>, <<"validity", 30>>, <<"timeliness", 15>>>>
      [] OTHER -> <<>>

FocusKeys(focus_map) == {focus_map[i][1] : i \in 1..Len(focus_map)}
FocusValue(focus_map, d) ==
    F64Lit(focus_map[CHOOSE i \in 1..Len(focus_map) : focus_map[i][1] = d][2])

\* focus maps beyond the built-in ones: a single dimension at 0.5
OtherFocus == {<<<<d, 50>>>> : d \in Dims}

MakeWeightsCall(k, focus_map) ==
    [fn |-> "_make_weights", pc |-> "call", key |-> k, args |-> [focus_map |-> focus_map]]

\* _make_weights, lines 9-13
make_weights_begin ==
    /\ frame.fn = "_make_weights"
    /\ frame.pc = "call"
    /\ LET focus_map   == frame.args.focus_map
           current_sum == F64Sum([i \in 1..Len(focus_map) |-> F64Lit(focus_map[i][2])])
       IN  frame' = [fn |-> "_make_weights", pc |-> "loop", key |-> frame.key,
                     args |-> frame.args,
                     current_sum |-> current_sum,
                     remaining   |-> F64Sub(F64One, current_sum),
                     start_count |-> Len(required_dimensions) - Len(focus_map),
                     weights     |-> <<>>,
                     i           |-> 1]
    /\ UNCHANGED <<df, now, metadata, dim_scores, base_dqs, runs, ret, PROFILES, held,
                   explanation>>

\* _make_weights, lines 14-15: one turn of the loop over dims
make_weights_loop ==
    /\ frame.fn = "_make_weights"
    /\ frame.pc = "loop"
    /\ frame.i <= Len(required_dimensions)
    /\ LET d == required_dimensions[frame.i]
           v == IF d \in FocusKeys(frame.args.focus_map)
                THEN FocusValue(frame.args.focus_map, d)
                ELSE IF frame.start_count > 0
                     THEN F64DivInt(frame.remaining, frame.start_count)
                     ELSE F64Zero
       IN  frame' = [frame EXCEPT !.i = @ + 1,
                                  !.weights = [x \in DOMAIN frame.weights \cup {d} |->
                                                  IF x = d THEN v ELSE frame.weights[x]]]
    /\ UNCHANGED <<df, now, metadata, dim_scores, base_dqs, runs, ret, PROFILES, held,
                   explanation>>

\* _make_weights, line 16
make_weights_return ==
    /\ frame.fn = "_make_weights"
    /\ frame.pc = "loop"
    /\ frame.i > Len(required_dimensions)
    /\ frame' = [frame EXCEPT !.pc = "done"]
    /\ ret' = Return(frame.weights)
    /\ UNCHANGED <<df, now, metadata, dim_scores, base_dqs, runs, PROFILES, held, explanation>>

InitWeights ==
    /\ PipelineIdle
    /\ PROFILES = PROFILES_AtImport
    /\ held = None
    /\ explanation = None
    /\ frame \in {MakeWeightsCall(Some(ProfileOrder[i]), BuiltInFocus(ProfileOrder[i])) :
                     i \in 1..Len(ProfileOrder)}
                 \cup {MakeWeightsCall(None, f) : f \in OtherFocus}
    /\ ret = NoRet

NextWeights ==
    \/ make_weights_begin
    \/ make_weights_loop
    \/ make_weights_return

SpecWeights == InitWeights /\ [][NextWeights]_vars

MakeWeightsDone == frame.fn = "_make_weights" /\ frame.pc = "done"

(* C12: for each built-in profile the vector built by _make_weights covers *)
(* the seven dimensions, each declared weight is kept as declared, each    *)
(* undeclared dimension gets the remaining mass divided by their number,   *)
(* and the seven weights sum to exactly 1.0.                               *)
C12_BuiltInWeightVectors ==
    (MakeWeightsDone /\ frame.key # None) =>
        LET focus_map == frame.args.focus_map
            declared  == F64Sum([i \in 1..Len(focus_map) |-> F64Lit(focus_map[i][2])])
            w         == ret.value
        IN  /\ DOMAIN w = Dims
            /\ \A d \in FocusKeys(focus_map) : w[d] = FocusValue(focus_map, d)
            /\ \A d \in Dims \ FocusKeys(focus_map) :
                  w[d] = F64DivInt(F64Sub(F64One, declared),
                                   Cardinality(Dims \ FocusKeys(focus_map)))
            /\ F64Sum([i \in 1..Len(required_dimensions) |-> w[required_dimensions[i]]])
                  = F64One

\* the same without the sum: what _make_weights does for the built-in profiles
C12_DeclaredKeptRestSplit ==
    (MakeWeightsDone /\ frame.key # None) =>
        LET focus_map == frame.args.focus_map
            declared  == F64Sum([i \in 1..Len(focus_map) |-> F64Lit(focus_map[i][2])])
            w         == ret.value
        IN  /\ DOMAIN w = Dims
            /\ \A d \in FocusKeys(focus_map) : w[d] = FocusValue(focus_map, d)
            /\ \A d \in Dims \ FocusKeys(focus_map) :
                  w[d] = F64DivInt(F64Sub(F64One, declared),
                                   Cardinality(Dims \ FocusKeys(focus_map)))

----------------------------------------------------------------------------
(* The ways a table reaches extract_metadata: load_dataset followed by     *)
(* extract_metadata, and process_data (dashboard.py, lines 46-54)          *)

DataCsv == <<"d", "a", "t", "a", ".", "c", "s", "v">>
DataXlsx == <<"d", "a", "t", "a", ".", "x", "l", "s", "x">>

\* str.endswith
EndsWith(s, suffix) ==
    Len(s) >= Len(suffix) /\ SubSeq(s, Len(s) - Len(suffix) + 1, Len(s)) = suffix

\* df.empty: some axis has length 0
IsEmptyFrame(t) == t.columns = <<>> \/ RowCount(t) = 0

\* load_dataset, lines 25-49; file is what the path holds, None when it
\* cannot be read as CSV
LoadDataset(source, file) ==
    IF ~EndsWith(source, <<".", "c", "s", "v">>) THEN Raise("ValueError")
    ELSE IF file = None THEN Raise("ValueError")
    ELSE IF IsEmptyFrame(file[1]) THEN Raise("ValueError")
    ELSE Return(file[1])

LoadDatasetCall(source) ==
    [fn |-> "load_dataset", pc |-> "call", args |-> [source |-> source]]

\* load_dataset(source), the path holding df
load_dataset ==
    /\ frame.fn = "load_dataset"
    /\ frame.pc = "call"
    /\ frame' = [frame EXCEPT !.pc = "done"]
    /\ ret' = LoadDataset(frame.args.source, df)
    /\ UNCHANGED <<df, now, metadata, dim_scores, base_dqs, runs, PROFILES, held, explanation>>

\* extract_metadata on the table load_dataset returned, lines 69-164
extract_metadata ==
    /\ frame.fn = "load_dataset"
    /\ frame.pc = "done"
    /\ ret.kind = "return"
    /\ frame' = [frame EXCEPT !.pc = "extracted"]
    /\ metadata' = Some(ExtractMetadata(ret.value))
    /\ UNCHANGED <<df, now, dim_scores, base_dqs, runs, ret, PROFILES, held, explanation>>

InitIngest ==
    /\ \/ df = None
       \/ \E n \in 1..MaxCols, r \in 0..MaxRows :
             \E cols \in [1..n -> ColumnsOfRows(r)] :
                 /\ DistinctNames(cols)
                 /\ df = Some(TableOf(cols))
    /\ now = NowBase
    /\ metadata = None
    /\ dim_scores = None
    /\ base_dqs = None
    /\ runs = <<>>
    /\ frame \in {LoadDatasetCall(DataCsv), LoadDatasetCall(DataXlsx), NoCall}
    /\ ret = NoRet
    /\ PROFILES = PROFILES_AtImport
    /\ held = None
    /\ explanation = None

NextIngest ==
    \/ load_dataset
    \/ extract_metadata
    \/ process_data

SpecIngest == InitIngest /\ [][NextIngest]_vars

(* C13: on every path to extraction an empty table (zero rows) is          *)
(* rejected with an error: no DatasetMetadata, no dimension scores and no  *)
(* base score are ever produced for it.                                    *)
C13_EmptyRejected ==
    (df # None /\ RowCount(df[1]) = 0) =>
        /\ metadata = None
        /\ dim_scores = None
        /\ base_dqs = None
        /\ runs = <<>>
        /\ (frame.fn = "load_dataset" /\ frame.pc = "done") => ret.kind = "raise"

\* the same for the path through load_dataset alone
C13_LoadDatasetRejectsEmpty ==
    (df # None /\ RowCount(df[1]) = 0 /\ frame.fn = "load_dataset") =>
        /\ frame.pc # "extracted"
        /\ frame.pc = "done" => ret.kind = "raise"

----------------------------------------------------------------------------
(* Metadata without semantic roles                                         *)

\* no column of m is hinted ID, MONEY, CATEGORY or TIMESTAMP, and no column
\* has timestamp metrics
NoRoleHinted(m) ==
    /\ \A c \in DOMAIN m.semantic_hints : m.semantic_hints[c] = "UNKNOWN"
    /\ DOMAIN m.timestamp_metrics = {}

AllHundred(scores, dims) == \A d \in dims : scores[d] = Rat(100)

(* C14: for every metadata in which no column is hinted ID, MONEY,         *)
(* CATEGORY or TIMESTAMP and timestamp_metrics is empty, uniqueness,       *)
(* validity, consistency, timeliness and integrity are each 100.0 and      *)
(* accuracy is 100.0, for any row count, null counts and distinct counts.  *)
C14_BenefitOfDoubt ==
    (metadata # None /\ df = None /\ NoRoleHinted(metadata[1]) /\ dim_scores # None) =>
        /\ dim_scores[1].kind = "return"
        /\ AllHundred(dim_scores[1].value,
                      {"uniqueness", "validity", "consistency", "timeliness", "integrity"})
        /\ dim_scores[1].value["accuracy"] = Rat(100)

(* C14, as amended: the same for every such metadata of at least one       *)
(* column; without columns accuracy is 0.0 and the five others are 100.0.  *)
C14_BenefitOfDoubtWithColumns ==
    (metadata # None /\ df = None /\ NoRoleHinted(metadata[1]) /\ dim_scores # None) =>
        /\ dim_scores[1].kind = "return"
        /\ AllHundred(dim_scores[1].value,
                      {"uniqueness", "validity", "consistency", "timeliness", "integrity"})
        /\ dim_scores[1].value["accuracy"]
              = IF metadata[1].column_names = <<>> THEN Rat(0) ELSE Rat(100)

C14_Witness ==
    /\ metadata # None
    /\ df = None
    /\ NoRoleHinted(metadata[1])
    /\ Len(metadata[1].column_names) = MaxCols
    /\ metadata[1].row_count = MaxRows
    /\ \E c \in DOMAIN metadata[1].null_counts :
          metadata[1].null_counts[c] = MaxRows /\ metadata[1].unique_counts[c] = 0
    /\ dim_scores # None
    /\ dim_scores[1].value["accuracy"] = Rat(100)
    /\ dim_scores[1].value["timeliness"] = Rat(100)
    /\ dim_scores[1].value["completeness"] = Rat(0)

----------------------------------------------------------------------------
(* Recency by age                                                          *)

\* the recency score of an age in hours, the bounds read on the age itself
RecencyOfAge(age) ==
    IF age < 0 THEN Rat(0)
    ELSE IF age <= 24 THEN Rat(100)
    ELSE IF age <= 30 * 24 THEN Rat(90)
    ELSE IF age <= 365 * 24 THEN Rat(70)
    ELSE Rat(40)

(* C15: with age = now minus a column's max observed instant, the column   *)
(* scores 0 if age < 0, 100 if age is at most 1 day, 90 if at most 30      *)
(* days, 70 if at most 365 days and 40 if older, also for ages that are    *)
(* not whole days; score_timeliness returns the average over the columns   *)
(* with timestamp metrics.                                                 *)
C15_RecencyBuckets ==
    (/\ metadata # None
     /\ df = None
     /\ DOMAIN metadata[1].timestamp_metrics # {}
     /\ dim_scores # None
     /\ dim_scores[1].kind = "return") =>
        LET ts_cols == DOMAIN metadata[1].timestamp_metrics
            byAge   == [c \in ts_cols |->
                          RecencyOfAge(now - metadata[1].timestamp_metrics[c].max_time)]
        IN  dim_scores[1].value["timeliness"]
                = RatDiv(RatSumOver(ts_cols, byAge), Rat(Cardinality(ts_cols)))

\* the same for ages of whole days and for instants in the future
C15_RecencyOfWholeDays ==
    (/\ metadata # None
     /\ df = None
     /\ DOMAIN metadata[1].timestamp_metrics # {}
     /\ \A c \in DOMAIN metadata[1].timestamp_metrics :
           LET age == now - metadata[1].timestamp_metrics[c].max_time
           IN  age < 0 \/ age % 24 = 0
     /\ dim_scores # None
     /\ dim_scores[1].kind = "return") =>
        LET ts_cols == DOMAIN metadata[1].timestamp_metrics
            byAge   == [c \in ts_cols |->
                          RecencyOfAge(now - metadata[1].timestamp_metrics[c].max_time)]
        IN  dim_scores[1].value["timeliness"]
                = RatDiv(RatSumOver(ts_cols, byAge), Rat(Cardinality(ts_cols)))

----------------------------------------------------------------------------
(* Timestamp hint versus parse                                             *)

\* the TIMESTAMP-hinted columns of the extracted metadata of which the
\* table holds at least one value that parses
HintedAndParseable ==
    {c \in DOMAIN metadata[1].semantic_hints :
        /\ metadata[1].semantic_hints[c] = "TIMESTAMP"
        /\ ValidTs(df[1].cells[c]) # {}}

(* C16: after extraction, every column hinted TIMESTAMP with at least one  *)
(* value that parses as a timestamp is present in timestamp_metrics,       *)
(* whichever name rule (date, time or created) produced the hint.          *)
C16_HintedParseablePresent ==
    (df # None /\ metadata # None) =>
        HintedAndParseable \subseteq DOMAIN metadata[1].timestamp_metrics

\* the same for the columns whose name holds "date" or "time"
C16_DateTimeNamedPresent ==
    (df # None /\ metadata # None) =>
        \A c \in HintedAndParseable :
            AttemptsParse(c, df[1].dtypes[c]) =>
                c \in DOMAIN metadata[1].timestamp_metrics

----------------------------------------------------------------------------
(* roles.py: explain_role_impact                                           *)

\* The returned text is kept as the record of its parts: which of the five
\* messages it is, and the values formatted into it.

\* the spelling of a dimension name
DimText ==
    [d \in Dims \cup {"freshness"} |->
        CASE d = "accuracy"     -> <<"a", "c", "c", "u", "r", "a", "c", "y">>
          [] d = "completeness" -> <<"c", "o", "m", "p", "l", "e", "t", "e", "n", "e", "s", "s">>
          [] d = "consistency"  -> <<"c", "o", "n", "s", "i", "s", "t", "e", "n", "c", "y">>
          [] d = "timeliness"   -> <<"t", "i", "m", "e", "l", "i", "n", "e", "s", "s">>
          [] d = "uniqueness"   -> <<"u", "n", "i", "q", "u", "e", "n", "e", "s", "s">>
          [] d = "validity"     -> <<"v", "a", "l", "i", "d", "i", "t", "y">>
          [] d = "integrity"    -> <<"i", "n", "t", "e", "g", "r", "i", "t", "y">>
          [] OTHER              -> <<"f", "r", "e", "s", "h", "n", "e", "s", "s">>]

IsLetter(ch) == ch \in Range(UpperLetters) \cup Range(LowerLetters)

\* str.title(), line 178: a letter that follows no letter is upper-cased,
\* every other letter lower-cased
Title(s) ==
    [i \in 1..Len(s) |->
        IF i = 1 \/ ~IsLetter(s[i - 1]) THEN Upper(<<s[i]>>)[1] ELSE Lower(<<s[i]>>)[1]]

\* f"{score:.1f}", line 178: the nearest multiple of 1/10, ties to the even one
Format1(q) ==
    LET x  == 10 * q[1]
        fl == x \div q[2]
        r  == x - fl * q[2]
        h  == IF 2 * r < q[2] THEN fl
              ELSE IF 2 * r > q[2] THEN fl + 1
              ELSE IF fl % 2 = 0 THEN fl ELSE fl + 1
    IN  Frac(h, 10)

\* a faulty variant: a score equal to the threshold listed too
RECURSIVE Failures_LessEqual(_, _, _)
Failures_LessEqual(check_dims, dimension_scores, threshold) ==
    IF check_dims = <<>> THEN <<>>
    ELSE LET score == Get(dimension_scores, Head(check_dims), Rat(0))
             rest  == Failures_LessEqual(Tail(check_dims), dimension_scores, threshold)
         IN  IF RatLe(score, Rat(threshold))
             THEN <<<<Head(check_dims), score>>>> \o rest ELSE rest

\* lines 157-161: the (dim, score) pairs below the threshold, in the order
\* of check_dims
RECURSIVE Failures(_, _, _)
Failures(check_dims, dimension_scores, threshold) ==
    IF check_dims = <<>> THEN <<>>
    ELSE LET score == Get(dimension_scores, Head(check_dims), Rat(0))
             rest  == Failures(Tail(check_dims), dimension_scores, threshold)
         IN  IF RatLt(score, Rat(threshold))
             THEN <<<<Head(check_dims), score>>>> \o rest ELSE rest

\* lines 143-147: the message of a role that is not applicable
NotApplicableMessage(role_profile) ==
    [kind      |-> "role_not_applicable",
     role_name |-> role_profile.role_name,
     signals   |-> Get(role_profile, "required_signals", <<>>)]

\* lines 152-182: the report of an applicable role
ImpactReport(role_profile, dimension_scores) ==
    LET check_dims == CheckDims(role_profile)
        threshold  == Threshold(role_profile)
        failures   == Failures(check_dims, dimension_scores, threshold)
        heading    == [role_name   |-> role_profile.role_name,
                       description |-> role_profile.description]
    IN  IF "description" \notin DOMAIN role_profile THEN Raise("KeyError")
        ELSE IF failures = <<>> /\ check_dims # <<>>
        THEN Return([kind |-> "no_critical_risks", heading |-> heading,
                     dims |-> check_dims, threshold |-> threshold])
        ELSE IF check_dims = <<>>
        THEN IF RatLt(Get(dimension_scores, "accuracy", Rat(100)), Rat(60))
             THEN Return([kind |-> "general_notice", heading |-> heading])
             ELSE Return([kind |-> "balanced_overview", heading |-> heading])
        ELSE IF "risk_level" \notin DOMAIN role_profile THEN Raise("KeyError")
        ELSE Return([kind |-> "critical_risks", heading |-> heading,
                     threshold |-> threshold,
                     lines |-> [i \in 1..Len(failures) |->
                                  [dim   |-> Title(DimText[failures[i][1]]),
                                   score |-> Format1(failures[i][2])]],
                     risk_level |-> role_profile.risk_level])

\* explain_role_impact, lines 133-182
ExplainRoleImpact(role_profile, dimension_scores, m) ==
    IF "role_name" \notin DOMAIN role_profile THEN Raise("KeyError")
    ELSE IF NotApplicableExit(role_profile, m)
    THEN Return(NotApplicableMessage(role_profile))
    ELSE ImpactReport(role_profile, dimension_scores)

ExplainCall(p, ds, m) ==
    [fn |-> "explain_role_impact", pc |-> "call",
     args |-> [role_profile |-> p, dimension_scores |-> ds, metadata |-> m]]

\* dashboard.py, lines 165 and 189: the score of a role, then its
\* explanation from the same profile, scores and metadata
caller_calls_explain_role_impact ==
    /\ frame.fn = "calculate_role_score"
    /\ frame.pc = "done"
    /\ frame' = ExplainCall(frame.args.role_profile, frame.args.dimension_scores,
                            frame.args.metadata)
    /\ UNCHANGED <<df, now, metadata, dim_scores, base_dqs, runs, ret, PROFILES, held,
                   explanation>>

explain_role_impact ==
    /\ frame.fn = "explain_role_impact"
    /\ frame.pc = "call"
    /\ frame' = [frame EXCEPT !.pc = "done"]
    /\ explanation' = Some(ExplainRoleImpact(frame.args.role_profile,
                                             frame.args.dimension_scores,
                                             frame.args.metadata))
    /\ UNCHANGED <<df, now, metadata, dim_scores, base_dqs, runs, ret, PROFILES, held>>

\* role_profile arguments: the dicts get_role_profile returns, the dicts a
\* caller builds, and an entry read from PROFILES itself, which has no
\* 'role_name' key
ExplainProfileArgs == RoleProfileArgs \cup {PROFILES_AtImport[FraudAnalyst]}

InitExplain ==
    /\ PipelineIdle
    /\ PROFILES = PROFILES_AtImport
    /\ held = None
    /\ explanation = None
    /\ frame \in {RoleScoreCall(Frac(8571, 100), ds, p, m, Frac(6, 10)) :
                    ds \in RoleScoreMaps, p \in ExplainProfileArgs, m \in MetadataArgs}
    /\ ret = NoRet

NextExplain ==
    \/ calculate_role_score
    \/ caller_calls_explain_role_impact
    \/ explain_role_impact

SpecExplain == InitExplain /\ [][NextExplain]_vars

ExplainDone == frame.fn = "explain_role_impact" /\ frame.pc = "done"

\* the required signals of p that are absent from the signals g or false there
MissingSignals(p, g) ==
    {x \in Range(Get(p, "required_signals", <<>>)) : ~Get(g, x, FALSE)}

(* C17: when a profile is not applicable to the dataset's signals,         *)
(* explain_role_impact returns the role-not-applicable message and the     *)
(* signals it names are exactly the required signals that are absent or    *)
(* false in the dataset's signals; a required signal that is present and   *)
(* true is not named.                                                      *)
C17_NamesMissingSignals ==
    (/\ ExplainDone
     /\ frame.args.metadata.obj = "record"
     /\ "role_name" \in DOMAIN frame.args.role_profile
     /\ ~is_role_applicable(frame.args.role_profile, frame.args.metadata.signals)) =>
        /\ explanation[1].kind = "return"
        /\ explanation[1].value.kind = "role_not_applicable"
        /\ Range(explanation[1].value.signals)
              = MissingSignals(frame.args.role_profile, frame.args.metadata.signals)

\* the same message names every required signal of the profile
C17_NamesRequiredSignals ==
    (/\ ExplainDone
     /\ frame.args.metadata.obj = "record"
     /\ "role_name" \in DOMAIN frame.args.role_profile
     /\ ~is_role_applicable(frame.args.role_profile, frame.args.metadata.signals)) =>
        /\ explanation[1].kind = "return"
        /\ explanation[1].value.kind = "role_not_applicable"
        /\ explanation[1].value.signals
              = Get(frame.args.role_profile, "required_signals", <<>>)

\* the profile carries the keys explain_role_impact reads without a default
NamedProfile(p) == {"role_name", "description", "risk_level"} \subseteq DOMAIN p

----------------------------------------------------------------------------
(* dashboard.py: upload, process, filter roles, select, score              *)

\* a faulty variant: the roles that are not applicable are the ones kept
RECURSIVE ApplicableRoles_Hidden(_, _, _)
ApplicableRoles_Hidden(all_roles, catalog, metadata_signals) ==
    IF all_roles = <<>> THEN <<>>
    ELSE LET r    == Head(all_roles)
             prof == GetRoleProfile(catalog, r)
             rest == ApplicableRoles_Hidden(Tail(all_roles), catalog, metadata_signals)
         IN  IF ~is_role_applicable(prof, metadata_signals) THEN <<r>> \o rest ELSE rest

\* dashboard.py, lines 73-81: the loop over all_roles
RECURSIVE ApplicableRoles(_, _, _)
ApplicableRoles(all_roles, catalog, metadata_signals) ==
    IF all_roles = <<>> THEN <<>>
    ELSE LET r    == Head(all_roles)
             prof == GetRoleProfile(catalog, r)
             rest == ApplicableRoles(Tail(all_roles), catalog, metadata_signals)
         IN  IF is_role_applicable(prof, metadata_signals) THEN <<r>> \o rest ELSE rest

\* dashboard.py, lines 67-69: the uploaded file is processed; an exception
\* of the core ends the run at line 245
dashboard_process_data ==
    /\ frame = NoCall
    /\ metadata = None
    /\ process_data

\* dashboard.py, lines 72-81
filter_roles ==
    /\ frame = NoCall
    /\ base_dqs # None
    /\ base_dqs[1].kind = "return"
    /\ LET applicable_roles ==
               ApplicableRoles(get_all_role_names, PROFILES, metadata[1].signals)
       IN  frame' = [fn |-> "dashboard", pc |-> "select",
                     applicable_roles |-> applicable_roles,
                     hidden_roles_count |-> Len(get_all_role_names) - Len(applicable_roles),
                     selected_role |-> None]
    /\ UNCHANGED <<df, now, metadata, dim_scores, base_dqs, runs, ret, PROFILES, held,
                   explanation>>

\* dashboard.py, lines 84-95: the user picks one of the listed roles; a
\* selectbox without options gives None
select_role ==
    /\ frame.fn = "dashboard"
    /\ frame.pc = "select"
    /\ \/ /\ frame.applicable_roles = <<>>
          /\ frame' = [frame EXCEPT !.pc = "score"]
       \/ \E i \in 1..Len(frame.applicable_roles) :
              frame' = [frame EXCEPT !.pc = "score",
                                     !.selected_role = Some(frame.applicable_roles[i])]
    /\ UNCHANGED <<df, now, metadata, dim_scores, base_dqs, runs, ret, PROFILES, held,
                   explanation>>

\* dashboard.py, lines 163-165: get_role_profile(None) raises at
\* role_name.lower()
role_section ==
    /\ frame.fn = "dashboard"
    /\ frame.pc = "score"
    /\ frame' = [frame EXCEPT !.pc = "done"]
    /\ ret' = IF frame.selected_role = None THEN Raise("AttributeError")
              ELSE Return(RoleScoreResult(base_dqs[1].value, dim_scores[1].value,
                                          GetRoleProfile(PROFILES, frame.selected_role[1]),
                                          MetaRecord(metadata[1].signals), Frac(6, 10)))
    /\ UNCHANGED <<df, now, metadata, dim_scores, base_dqs, runs, PROFILES, held,
                   explanation>>

NextDashboard ==
    \/ dashboard_process_data
    \/ filter_roles
    \/ select_role
    \/ role_section

SpecDashboard == Init /\ [][NextDashboard]_vars

\* the entries of the catalog that are applicable to the signals g
BuiltInApplicable(g) ==
    {r \in Range(ProfileOrder) :
        is_role_applicable(PROFILES[r], g)}

(* C18: for every signals mapping at least one built-in role is            *)
(* applicable, "Executive / Leadership" among them; in the dashboard flow  *)
(* the list of selectable roles is never empty and calculate_role_score    *)
(* for the selected role never returns the not-applicable result.          *)
C18_SomeRoleApplicable ==
    /\ \A g \in [SignalNames -> BOOLEAN] \cup SignalMaps :
          ExecutiveLeadership \in BuiltInApplicable(g)
    /\ frame.fn = "dashboard" =>
          /\ frame.applicable_roles # <<>>
          /\ ExecutiveLeadership \in Range(frame.applicable_roles)
          /\ Range(frame.applicable_roles) = BuiltInApplicable(metadata[1].signals)
    /\ (frame.fn = "dashboard" /\ frame.pc \in {"score", "done"}) =>
          /\ frame.selected_role # None
          /\ frame.selected_role[1] \in Range(frame.applicable_roles)
    /\ (frame.fn = "dashboard" /\ frame.pc = "done") =>
          /\ ret.kind = "return"
          /\ ret.value[1] # None

C18_Witness ==
    /\ frame.fn = "dashboard"
    /\ frame.pc = "done"
    /\ frame.hidden_roles_count = 2
    /\ frame.selected_role = Some(FraudAnalyst)
    /\ metadata[1].signals["has_transaction_id"]
    /\ ret.kind = "return"
    /\ ret.value[1] # None

====
